---- MODULE Spec2Model ----
(***************************************************************************)
(* Model of the Dresden participants.tsv generator (src/participants.py):  *)
(* the date normalizers, the session index, the per-source field           *)
(* processors and main; and of the BIDS organizer                          *)
(* (src/organize_to_bids.py): the session mapping and the copy loop.       *)
(*                                                                         *)
(* Calendar dates in the canonical form 'YYYYMMDD' are modelled by the     *)
(* integer YYYYMMDD (string order and equality of 8-digit strings are the  *)
(* integer order and equality).  Every other Python value is a record      *)
(* [k, a, b, c, z]: k is the kind of the value (its type, and for a string *)
(* the textual layout), a/b/c the numbers written in it in textual order   *)
(* and z the sign of the timezone offset of a long-form string.            *)
(***************************************************************************)
EXTENDS Integers, Sequences, FiniteSets, TLC

VARIABLES tree, files, loads, tz, participants, df, pc, written,
          idx, si, handedness, session_dom, session_ndom,
          nfn, narg, nses, nout,
          run, first_written, changed, given,
          input_root, session_mapping, nifti_files, fi, bids, anat_dirs,
          processed_count, skipped_count, bpc,
          input_path, dicom_dirs, di, success_count, fail_count, converted, dpc

vars == <<tree, files, loads, tz, participants, df, pc, written,
          idx, si, handedness, session_dom, session_ndom,
          nfn, narg, nses, nout,
          run, first_written, changed, given,
          input_root, session_mapping, nifti_files, fi, bids, anat_dirs,
          processed_count, skipped_count, bpc,
          input_path, dicom_dirs, di, success_count, fail_count, converted, dpc>>

mainVars == <<tree, files, loads, tz, participants, df, pc, written,
              idx, si, handedness, session_dom, session_ndom>>

normVars == <<nfn, narg, nses, nout>>

\* the count of the runs of main, the table of the first run and the
\* participant whose records were changed between the runs (0: none)
runVars == <<run, first_written, changed, given>>

\* the state of organize_to_bids
bidsVars == <<input_root, session_mapping, nifti_files, fi, bids, anat_dirs,
              processed_count, skipped_count, bpc>>

\* the state of process_dresden_dataset
dcmVars == <<input_path, dicom_dirs, di, success_count, fail_count, converted, dpc>>

----------------------------------------------------------------------------
(* Bounds of the model *)

MaxRows == 2

MaxSessions == 2

\* the most entries in the listing of a subject directory of the index trees
MaxListing == 2

\* the most NIfTI files of a date directory of the input tree
MaxFiles == 2

----------------------------------------------------------------------------
(* Python values *)

Val(k, a, b, c, z) == [k |-> k, a |-> a, b |-> b, c |-> c, z |-> z]

PyNone == Val("none", 0, 0, 0, 0)

NaN == Val("nan", 0, 0, 0, 0)

EmptyStr == Val("empty", 0, 0, 0, 0)

NonStrKinds == {"none", "nan", "inf", "int", "float", "ts"}

IsStr(x) == x.k \notin NonStrKinds

\* pd.isna(x): None and NaN are missing values
isna(x) == x.k \in {"none", "nan"}

\* str(x): the text Python prints for a value; a str is returned unchanged
str(x) ==
    CASE x.k = "int" -> Val("digits", x.a, 0, 0, 0)
      [] x.k = "float" -> Val("floatstr", x.a, x.b, 0, 0)
      [] x.k = "ts" -> Val("isotime", x.a, x.b, x.c, 0)
      [] x.k \in {"none", "nan", "inf"} -> Val("text", 0, 0, 0, 0)
      [] OTHER -> x

----------------------------------------------------------------------------
(* Results of a call: a value, None, or a raised exception *)

Ok(v) == [r |-> "ok", v |-> v, e |-> ""]

RNone == [r |-> "none", v |-> 0, e |-> ""]

Raise(e) == [r |-> "raise", v |-> 0, e |-> e]

----------------------------------------------------------------------------
(* The proleptic Gregorian calendar of datetime *)

IsLeap(y) == (y % 4 = 0 /\ y % 100 # 0) \/ y % 400 = 0

DaysInMonth(y, m) ==
    IF m = 2 THEN (IF IsLeap(y) THEN 29 ELSE 28)
    ELSE IF m \in {4, 6, 9, 11} THEN 30 ELSE 31

\* the fields accepted by strptime for %Y, %m and %d
ValidYMD(y, m, d) ==
    /\ y >= 1 /\ y <= 9999
    /\ m >= 1 /\ m <= 12
    /\ d >= 1 /\ d <= DaysInMonth(y, m)

\* strftime('%Y%m%d')
strftime(y, m, d) == y * 10000 + m * 100 + d

\* days from 1970-01-01 to the date y-m-d
DaysFromCivil(y, m, d) ==
    LET yy == IF m <= 2 THEN y - 1 ELSE y
        era == yy \div 400
        yoe == yy - era * 400
        mp == IF m > 2 THEN m - 3 ELSE m + 9
        doy == (153 * mp + 2) \div 5 + d - 1
        doe == yoe * 365 + yoe \div 4 - yoe \div 100 + doy
    IN era * 146097 + doe - 719468

\* the date, as strftime('%Y%m%d') prints it, that lies n days after 1970-01-01
CivilFromDays(n) ==
    LET zz == n + 719468
        era == zz \div 146097
        doe == zz - era * 146097
        yoe == (doe - doe \div 1460 + doe \div 36524 - doe \div 146096) \div 365
        doy == doe - (365 * yoe + yoe \div 4 - yoe \div 100)
        mp == (5 * doy + 2) \div 153
        d == doy - (153 * mp + 2) \div 5 + 1
        m == IF mp < 10 THEN mp + 3 ELSE mp - 9
        y == yoe + era * 400 + (IF m <= 2 THEN 1 ELSE 0)
    IN strftime(y, m, d)

\* the fields of a canonical 8-digit value, as '%Y%m%d' reads them
YearOf(c) == c \div 10000

MonthOf(c) == (c \div 100) % 100

DayOf(c) == c % 100

IsCalendarDate(c) == ValidYMD(YearOf(c), MonthOf(c), DayOf(c))

DayNumber(c) == DaysFromCivil(YearOf(c), MonthOf(c), DayOf(c))

\* |a - b| in days, for two canonical dates
LagDays(a, b) ==
    IF DayNumber(a) >= DayNumber(b) THEN DayNumber(a) - DayNumber(b)
    ELSE DayNumber(b) - DayNumber(a)

----------------------------------------------------------------------------
(* The date normalizers *)

\* int(x) inside extract_date_from_timestamp
int(x) ==
    CASE x.k \in {"int", "float", "digits"} -> Ok(x.a)
      [] x.k = "bigdigits" -> Ok(x.a)
      [] x.k = "inf" -> Raise("OverflowError")
      [] x.k \in {"none", "ts"} -> Raise("TypeError")
      [] OTHER -> Raise("ValueError")

\* datetime.fromtimestamp(n).strftime('%Y%m%d') in local time; big is the size
\* class of an integer beyond the 32-bit range of the model: 1 for a year
\* beyond 9999 (ValueError), 2 for a value localtime() rejects (OSError),
\* 3 for a value beyond time_t (OverflowError)
fromtimestamp(n, big, offset) ==
    CASE big = 0 -> Ok(CivilFromDays((n + offset) \div 86400))
      [] big = 1 -> Raise("ValueError")
      [] big = 2 -> Raise("OSError")
      [] OTHER -> Raise("OverflowError")

\* try: <body> except (<errors>): <handler>
except(body, errors, handler) ==
    IF body.r = "raise" /\ body.e \in errors THEN handler ELSE body

\* dt = datetime.fromtimestamp(timestamp), reached when int() has returned
timestamp_date(timestamp, big, offset) ==
    IF timestamp.r = "raise" THEN timestamp ELSE fromtimestamp(timestamp.v, big, offset)

extract_date_from_timestamp(timestamp_str, offset) ==
    except(timestamp_date(int(timestamp_str),
                          IF timestamp_str.k = "bigdigits" THEN timestamp_str.a ELSE 0,
                          offset),
           {"ValueError", "TypeError"}, RNone)

\* datetime_str.split(' +')[0]: only an offset written with a plus sign is cut off
split_plus(s) ==
    IF s.k = "long" /\ s.z = 1 THEN Val("long", s.a, s.b, s.c, 0) ELSE s

\* a parser that reads the form 'YYYYMMDD' under every format
strptime_canonical(s, fmt) ==
    IF ~IsStr(s) THEN Raise("TypeError")
    ELSE IF s.k = "digits" /\ s.a >= 10000000 /\ IsCalendarDate(s.a) THEN Ok(s.a)
    ELSE Raise("ValueError")

\* datetime.strptime(s, fmt).strftime('%Y%m%d') for the layouts of the sources
strptime(s, fmt) ==
    IF ~IsStr(s) THEN Raise("TypeError")
    ELSE CASE fmt = "%a, %d %b %Y %H:%M:%S" ->
                 IF s.k = "long" /\ s.z = 0 /\ ValidYMD(s.c, s.b, s.a)
                 THEN Ok(strftime(s.c, s.b, s.a)) ELSE Raise("ValueError")
           [] fmt = "%Y-%m-%d" ->
                 IF s.k = "iso" /\ ValidYMD(s.a, s.b, s.c)
                 THEN Ok(strftime(s.a, s.b, s.c)) ELSE Raise("ValueError")
           [] fmt = "%d/%m/%Y" ->
                 IF s.k = "slash" /\ ValidYMD(s.c, s.b, s.a)
                 THEN Ok(strftime(s.c, s.b, s.a)) ELSE Raise("ValueError")
           [] fmt = "%d.%m.%Y" ->
                 IF s.k = "dot" /\ ValidYMD(s.c, s.b, s.a)
                 THEN Ok(strftime(s.c, s.b, s.a)) ELSE Raise("ValueError")
           [] OTHER ->
                 IF s.k = "digits" /\ s.a >= 10000000 /\ IsCalendarDate(s.a)
                 THEN Ok(s.a) ELSE Raise("ValueError")

extract_date_from_datetime(datetime_str) ==
    except(IF IsStr(datetime_str)
           THEN strptime(split_plus(datetime_str), "%a, %d %b %Y %H:%M:%S")
           ELSE Raise("AttributeError"),
           {"ValueError", "AttributeError"},
           except(strptime(datetime_str, "%Y-%m-%d"), {"ValueError", "AttributeError"}, RNone))

extract_date_from_visitdate(visitdate_str) ==
    except(strptime(visitdate_str, "%d/%m/%Y"), {"ValueError", "AttributeError"}, RNone)

\* round(days / 365.2425, 2) in hundredths of a year: 100 / 365.2425 = 40000 / 146097,
\* and no quotient lies exactly between two hundredths (146097 is odd)
AgeHundredths(days) ==
    LET q == (days * 40000) \div 146097
        rem == days * 40000 - q * 146097
    IN IF 2 * rem >= 146097 THEN q + 1 ELSE q

\* calculate_age returns the age as the number f"{age:.2f}" prints, in hundredths
\* age = round((session_dt - dob).days / 365.2425, 2), reached when both dates are parsed
age_between(dob, session_dt) ==
    IF dob.r = "raise" THEN dob
    ELSE IF session_dt.r = "raise" THEN session_dt
    ELSE Ok(AgeHundredths(DayNumber(session_dt.v) - DayNumber(dob.v)))

calculate_age(dob_str, session_date) ==
    except(age_between(strptime(dob_str, "%d.%m.%Y"), strptime(session_date, "%Y%m%d")),
           {"ValueError", "AttributeError"}, RNone)

----------------------------------------------------------------------------
(* Strings of the output table.  A string is the sequence of its pieces: a  *)
(* piece is the text of one value, or the separator ','.                    *)

Comma == Val("comma", 0, 0, 0, 0)

\* the pieces of the text of one value: the empty string has none
Chars(s) == IF s.k = "empty" THEN <<>> ELSE <<s>>

\* ','.join(ss)
RECURSIVE join(_)
join(ss) ==
    IF Len(ss) = 0 THEN <<>>
    ELSE IF Len(ss) = 1 THEN ss[1]
    ELSE ss[1] \o <<Comma>> \o join(Tail(ss))

\* [''] * n
Blanks(n) == [j \in 1..n |-> <<>>]

\* f"{age:.2f}"
FormatAge(h) == <<Val("fixed2", h, 0, 0, 0)>>

\* .strip(): a text padded with blanks loses the padding
strip(s) == IF s.k = "padded" THEN Val("digits", s.a, 0, 0, 0) ELSE s

\* str(w).strip().lower() of a word cell
strip_lower(w) == w.w

\* cell == '' for a value cell
IsEmptyStr(x) == x.k = "empty"

\* cell == '' for a word cell
IsEmptyWord(w) == w.k = "str" /\ w.w = "" /\ w.deco = "plain"

----------------------------------------------------------------------------
(* The data frame: a function from column names to the column's cells, one *)
(* per row.                                                                *)

EmptyFrame == [c \in {} |-> <<>>]

\* an input directory that does not exist
NoInput == [exists |-> FALSE, items |-> <<>>]

Rows(d) == IF "participant_id" \in DOMAIN d THEN Len(d["participant_id"]) ELSE 0

\* an assignment that returns a frame of the one column c
SetCol_alone(d, c, vals) == [x \in {c} |-> vals]

\* df[c] = vals
SetCol(d, c, vals) == [x \in DOMAIN d \cup {c} |-> IF x = c THEN vals ELSE d[x]]

\* df[c] = v, one scalar for every row
FillCol(d, c, v) == SetCol(d, c, [i \in 1..Rows(d) |-> v])

\* df.at[i, c] = v
SetAt(d, i, c, v) == [d EXCEPT ![c] = [@ EXCEPT ![i] = v]]

----------------------------------------------------------------------------
(* get_participants_and_sessions *)

RECURSIVE Insert(_, _)
Insert(x, s) ==
    IF Len(s) = 0 THEN <<x>>
    ELSE IF x < s[1] THEN <<x>> \o s
    ELSE <<s[1]>> \o Insert(x, Tail(s))

\* sorted(sessions)
RECURSIVE sorted(_)
sorted(s) == IF Len(s) = 0 THEN <<>> ELSE Insert(s[1], sorted(Tail(s)))

\* ^sub-(\d+)$
sub_pattern(name) == name.pre = "sub-" /\ name.id >= 0 /\ name.suf = ""

\* ^ses-(\d+)_(\d{8})$
ses_pattern(name) ==
    name.pre = "ses-" /\ name.ord >= 0 /\ name.date >= 0 /\ name.nd = 8 /\ name.suf = ""

\* the session dates of the conforming session directories of one subject directory
RECURSIVE SessionsOf(_)
SessionsOf(entries) ==
    IF Len(entries) = 0 THEN <<>>
    ELSE LET e == entries[1]
         IN (IF e.dir /\ ses_pattern(e.name) THEN <<e.name.date>> ELSE <<>>)
            \o SessionsOf(Tail(entries))

\* an index that keeps a subject directory without a session
RECURSIVE participants_unguarded(_)
participants_unguarded(items) ==
    IF Len(items) = 0 THEN <<>>
    ELSE (IF items[1].dir /\ sub_pattern(items[1].name)
          THEN <<[pid |-> items[1].name.id, sessions |-> sorted(SessionsOf(items[1].ses))]>>
          ELSE <<>>)
         \o participants_unguarded(Tail(items))

RECURSIVE get_participants_and_sessions(_)
get_participants_and_sessions(items) ==
    IF Len(items) = 0 THEN <<>>
    ELSE LET item == items[1]
             sessions == SessionsOf(item.ses)
         IN (IF item.dir /\ sub_pattern(item.name) /\ Len(sessions) > 0
             THEN <<[pid |-> item.name.id, sessions |-> sorted(sessions)]>>
             ELSE <<>>)
            \o get_participants_and_sessions(Tail(items))

\* participants[participant_id] for the participant of row i
SessionDates(parts, i) == parts[i].sessions

\* participant_id.replace('sub-', '')
numeric_id(pid) == Val("digits", pid, 0, 0, 0)

----------------------------------------------------------------------------
(* build_session_mapping (src/organize_to_bids.py).  The input tree is the  *)
(* listing of the input directory: each item has a name [a, id, suf] (the   *)
(* two numbers of '<a>_<id>' and what follows them, a negative a or id for  *)
(* a name that does not begin so) and the listing of its entries, each with *)
(* a name as in the session index and its NIfTI files.                      *)

\* re.match(r'\d+_\d+', item.name): the name begins with digits, '_', digits
subject_pattern(name) == name.a >= 0 /\ name.id >= 0

\* re.match(r'^\d{8}$', item.name): the name is eight digits
date_pattern(name) ==
    name.pre = "" /\ name.ord < 0 /\ name.date >= 0 /\ name.nd = 8 /\ name.suf = ""

\* session_dates: the names of the date directories of one subject, as listed
RECURSIVE session_dates_of(_)
session_dates_of(entries) ==
    IF Len(entries) = 0 THEN <<>>
    ELSE LET e == entries[1]
         IN (IF e.dir /\ date_pattern(e.name) THEN <<e.name.date>> ELSE <<>>)
            \o session_dates_of(Tail(entries))

listing_order(session_dates) == session_dates

\* session_dates.sort()
sort(session_dates) == sorted(session_dates)

label_from_zero(n, session_date) == [ord |-> n - 1, date |-> session_date]

\* f"{idx:02d}_{session_date}"
session_label(n, session_date) == [ord |-> n, date |-> session_date]

\* for idx, session_date in enumerate(session_dates, start=1):
\*     session_mapping[(subject_id, session_date)] = session_label
RECURSIVE enumerate(_, _, _)
enumerate(subject_id, session_dates, n) ==
    IF Len(session_dates) = 0 THEN <<>>
    ELSE enumerate(subject_id, Tail(session_dates), n + 1)
         @@ (<<subject_id, session_dates[1]>> :> session_label(n, session_dates[1]))

RECURSIVE build_session_mapping(_)
build_session_mapping(items) ==
    IF Len(items) = 0 THEN <<>>
    ELSE build_session_mapping(Tail(items))
         @@ (IF items[1].dir /\ subject_pattern(items[1].name)
             THEN enumerate(items[1].name, sort(session_dates_of(items[1].ses)), 1)
             ELSE <<>>)

----------------------------------------------------------------------------
(* detect_modality_from_filename, detect_modality_from_json and the loop of *)
(* organize_to_bids.  A text is the set of the markers 'FLAIR' and 'T1' its *)
(* upper-case form contains.  The json of a NIfTI file is the JSON file    *)
(* stored next to it: absent, unreadable, or the three fields the detection *)
(* reads, each with its type k and its text; jname is the name it is stored *)
(* under, <stem>.json or <stem>.nii.json.  A file of the                    *)
(* output tree is keyed by subject, session label, modality and extension   *)
(* and holds the path it was copied from.                                   *)

NoModality == ""

Text(k, has) == [k |-> k, has |-> has]

Json(st, series, image, protocol) ==
    [st |-> st, series |-> series, image |-> image, protocol |-> protocol]

NoJson == Json("absent", Text("str", {}), Text("list", {}), Text("str", {}))

\* if 'FLAIR' in text: return 'FLAIR' / if 'T1' in text: return 'T1w'
modality_in(text) ==
    IF "FLAIR" \in text THEN "FLAIR" ELSE IF "T1" \in text THEN "T1w" ELSE NoModality

detect_modality_from_filename(filename) == modality_in(filename)

\* the ImageType and ProtocolName steps, after a SeriesDescription without a marker
detect_after_series(json) ==
    IF json.image.k = "list" /\ modality_in(json.image.has) # NoModality
      THEN modality_in(json.image.has)
    ELSE IF json.image.k = "badlist" \/ json.protocol.k # "str" THEN NoModality
    ELSE modality_in(json.protocol.has)

\* every exception (no file, no JSON, a field that is no string) is caught: None
detect_modality_from_json(json) ==
    IF json.st # "ok" \/ json.series.k # "str" THEN NoModality
    ELSE IF modality_in(json.series.has) # NoModality THEN modality_in(json.series.has)
    ELSE detect_after_series(json)

\* nifti_file.with_suffix('.json'): only the last suffix is replaced, so for
\* <stem>.nii.gz the file looked up is <stem>.nii.json; a JSON file stored as
\* <stem>.json is not found
with_suffix(f) == IF f.jname = "nii.json" THEN f.json ELSE NoJson

\* if json_file.exists(): modality = detect_modality_from_json(json_file)
\* if not modality: modality = detect_modality_from_filename(nifti_file.name)
modality_of(f) ==
    IF with_suffix(f).st # "absent" /\ detect_modality_from_json(with_suffix(f)) # NoModality
      THEN detect_modality_from_json(with_suffix(f))
    ELSE detect_modality_from_filename(f.name)

\* the subject and the date read from the parts of the relative path
\* <item>/<entry>/raw/<file>: the first part that begins with digits, '_',
\* digits is the subject, and the part after it is the date when it is eight
\* digits ('raw' and the file name are neither)
path_metadata(f) ==
    IF subject_pattern(f.subject) /\ date_pattern(f.entry)
      THEN [found |-> TRUE, subject_id |-> f.subject, session_date |-> f.entry.date]
    ELSE [found |-> FALSE, subject_id |-> f.subject, session_date |-> -1]

\* subject_id.replace('396_', '')
bids_subject_id(subject_id) ==
    IF subject_id.a = 396 THEN [subject_id EXCEPT !.a = -1] ELSE subject_id

\* format_bids_filename and the extension
Target(sub, label, modality, ext) ==
    [sub |-> sub, ses |-> label, mod |-> modality, ext |-> ext]

\* shutil.copy2 whether or not the target exists
copied_over(out, target, source) == (target :> source) @@ out

\* shutil.copy2 unless the target exists
copied(out, target, source) ==
    IF target \in DOMAIN out THEN out ELSE out @@ (target :> source)

\* the NIfTI files of the date entries of one item, in listing order
RECURSIVE files_of_entries(_, _)
files_of_entries(subject, entries) ==
    IF Len(entries) = 0 THEN <<>>
    ELSE [k \in 1..Len(entries[1].files) |->
              [subject |-> subject, entry |-> entries[1].name, k |-> k,
               name |-> entries[1].files[k].name, json |-> entries[1].files[k].json,
               jname |-> entries[1].files[k].jname,
               readable |-> entries[1].files[k].readable]]
         \o files_of_entries(subject, Tail(entries))

\* input_path.rglob('*.nii.gz') in listing order
RECURSIVE rglob(_)
rglob(items) ==
    IF Len(items) = 0 THEN <<>>
    ELSE files_of_entries(items[1].name, items[1].ses) \o rglob(Tail(items))

reversed(l) == [i \in 1..Len(l) |-> l[Len(l) + 1 - i]]

----------------------------------------------------------------------------
(* load_excel_file and the row filter *)

Unread == [st |-> "unread", lacks |-> {}, rows |-> <<>>]

\* load_excel_file without the try/except around pd.read_excel
load_excel_file_unguarded(f) ==
    IF f.st = "missing" THEN RNone
    ELSE IF f.st = "unreadable" THEN Raise("Exception")
    ELSE Ok(f)

\* load_excel_file: the frame, or None for a missing file and for a file that
\* pd.read_excel fails to read
load_excel_file(f) ==
    IF f.st = "missing" THEN RNone
    ELSE IF f.st = "unreadable" THEN RNone
    ELSE Ok(f)

\* excel_df[excel_df[<id column>].astype(str).str.strip() == numeric_id]
matching_rows(f, pid) == SelectSeq(f.rows, LAMBDA row : strip(str(row.id)) = numeric_id(pid))

----------------------------------------------------------------------------
(* process_age_field, process_sex_field, process_is_ms_field *)

\* <list>.append(<value>) in a loop: the value of this round, then the rest of the
\* loop, unless this round or a later one raises
appended(head, rest) ==
    IF head.r = "raise" THEN head
    ELSE IF rest.r = "raise" THEN rest
    ELSE Ok(<<head.v>> \o rest.v)

\* ','.join(<list>) once the loop that fills the list is over
joined(vals) == IF vals.r = "raise" THEN vals ELSE Ok(join(vals.v))

\* df[<column>] = <list> once the loop over the participants is over
assigned(d, column, vals) == IF vals.r = "raise" THEN vals ELSE Ok(SetCol(d, column, vals.v))

\* f"{age:.2f}" if age is not None else ''
age_text(age) ==
    IF age.r = "raise" THEN age
    ELSE IF age.r = "ok" THEN Ok(FormatAge(age.v))
    ELSE Ok(<<>>)

\* the inner loop over session_dates of process_age_field
RECURSIVE age_values(_, _)
age_values(dob_value, session_dates) ==
    IF Len(session_dates) = 0 THEN Ok(<<>>)
    ELSE appended(age_text(calculate_age(str(dob_value),
                                         Val("digits", session_dates[1], 0, 0, 0))),
                  age_values(dob_value, Tail(session_dates)))

\* the branch on matching_rows of process_age_field
age_of_rows(lacks, rows, session_dates) ==
    IF Len(rows) = 0 THEN Ok(<<>>)
    ELSE IF "dob" \in lacks THEN Raise("KeyError")
    ELSE IF isna(rows[1].dob) \/ IsEmptyStr(rows[1].dob) THEN Ok(<<>>)
    ELSE joined(age_values(rows[1].dob, session_dates))

\* the body of the loop over df['participant_id'] of process_age_field
age_of(f, part) ==
    IF "id" \in f.lacks THEN Raise("KeyError")
    ELSE age_of_rows(f.lacks, matching_rows(f, part.pid), part.sessions)

\* the cells that a loop over the participants collects, or the first exception
RECURSIVE Collect(_, _)
Collect(results, i) ==
    IF i > Len(results) THEN Ok(<<>>)
    ELSE appended(results[i], Collect(results, i + 1))

process_age_field(parts, d, f) ==
    IF load_excel_file(f).r = "raise" THEN load_excel_file(f)
    ELSE IF load_excel_file(f).r = "none" THEN Ok(FillCol(d, "age", <<>>))
    ELSE assigned(d, "age", Collect([i \in 1..Rows(d) |-> age_of(f, parts[i])], 1))

\* the branch on matching_rows of process_sex_field
sex_of_rows(lacks, rows) ==
    IF Len(rows) = 0 THEN Ok("")
    ELSE IF "gender" \in lacks THEN Raise("KeyError")
    ELSE IF isna(rows[1].gender) \/ IsEmptyWord(rows[1].gender) THEN Ok("")
    ELSE Ok(strip_lower(rows[1].gender))

sex_of(f, pid) ==
    IF "id" \in f.lacks THEN Raise("KeyError")
    ELSE sex_of_rows(f.lacks, matching_rows(f, pid))

process_sex_field(d, f) ==
    IF load_excel_file(f).r = "raise" THEN load_excel_file(f)
    ELSE IF load_excel_file(f).r = "none" THEN Ok(FillCol(d, "sex", ""))
    ELSE assigned(d, "sex",
                  Collect([i \in 1..Rows(d) |-> sex_of(f, d["participant_id"][i])], 1))

\* the branch on matching_rows of process_is_ms_field
is_ms_of_rows(lacks, rows) ==
    IF Len(rows) = 0 THEN Ok("")
    ELSE IF "diag" \in lacks THEN Raise("KeyError")
    ELSE IF isna(rows[1].diag) \/ IsEmptyStr(rows[1].diag) THEN Ok("")
    ELSE Ok("1")

is_ms_of(f, pid) ==
    IF "id" \in f.lacks THEN Raise("KeyError")
    ELSE is_ms_of_rows(f.lacks, matching_rows(f, pid))

process_is_ms_field(d, f) ==
    IF load_excel_file(f).r = "raise" THEN load_excel_file(f)
    ELSE IF load_excel_file(f).r = "none" THEN Ok(FillCol(d, "is_ms", ""))
    ELSE assigned(d, "is_ms",
                  Collect([i \in 1..Rows(d) |-> is_ms_of(f, d["participant_id"][i])], 1))

----------------------------------------------------------------------------
(* process_sdmt_field, process_edss_field, process_t25fw_field and           *)
(* process_education_field: the same loops over a source with an id column, *)
(* a date column and a value column; they differ in the normalizer.         *)

\* the normalizer each field processor applies to str(<date cell>)
Normalize(src, cell, offset) ==
    CASE src = "edss" -> extract_date_from_visitdate(str(cell))
      [] src = "education" -> extract_date_from_timestamp(str(cell), offset)
      [] OTHER -> extract_date_from_datetime(str(cell))

\* the text appended for a matched value cell
ValueText(v) == IF isna(v) \/ IsEmptyStr(v) THEN <<>> ELSE Chars(str(v))

\* a comparison that accepts a record within 90 days of the session date
date_matches_tolerant(assessment_date, session_date) ==
    LagDays(assessment_date, session_date) <= 90

\* a comparison that accepts every record with a readable date
date_matches_any(assessment_date, session_date) == TRUE

\* if assessment_date == session_date
date_matches(assessment_date, session_date) == assessment_date = session_date

\* the outcome of a round without the break: a later matching record replaces this one
first_match_overwritten(here, later) ==
    IF later.r = "ok" /\ later.v.found THEN later ELSE here

\* found = True; break: the later rows are not read
first_match(here, later) == here

\* a round that passes over a date-matched record whose value cell is empty
scan_row_valued(assessment_date, lacks, row, i, session_date, later) ==
    IF assessment_date.r = "raise" THEN assessment_date
    ELSE IF assessment_date.r = "ok" /\ date_matches(assessment_date.v, session_date)
              /\ ("val" \in lacks \/ ValueText(row.val) # <<>>)
    THEN (IF "val" \in lacks THEN Raise("KeyError")
          ELSE Ok([found |-> TRUE, at |-> i, text |-> ValueText(row.val)]))
    ELSE later

\* one round of the loop over matching_rows.iterrows(): the record at i is taken,
\* or the loop goes on to the later rows
scan_row(assessment_date, lacks, row, i, session_date, later) ==
    IF assessment_date.r = "raise" THEN assessment_date
    ELSE IF assessment_date.r = "ok" /\ date_matches(assessment_date.v, session_date)
    THEN (IF "val" \in lacks THEN Raise("KeyError")
          ELSE first_match(Ok([found |-> TRUE, at |-> i, text |-> ValueText(row.val)]),
                           later))
    ELSE later

\* the loop over matching_rows.iterrows() for one session_date: the appended text and found
RECURSIVE scan_rows(_, _, _, _, _, _)
scan_rows(src, lacks, rows, i, session_date, offset) ==
    IF i > Len(rows) THEN Ok([found |-> FALSE, at |-> 0, text |-> <<>>])
    ELSE IF "date" \in lacks THEN Raise("KeyError")
    ELSE IF isna(rows[i].date) THEN scan_rows(src, lacks, rows, i + 1, session_date, offset)
    ELSE scan_row(Normalize(src, rows[i].date, offset), lacks, rows[i], i, session_date,
                  scan_rows(src, lacks, rows, i + 1, session_date, offset))

\* session_<field>.append(...): the text of the record found, '' when none is
found_text(res) == IF res.r = "raise" THEN res ELSE Ok(res.v.text)

\* the loop over session_dates: the list session_<field>
RECURSIVE session_values(_, _, _, _, _)
session_values(src, lacks, rows, session_dates, offset) ==
    IF Len(session_dates) = 0 THEN Ok(<<>>)
    ELSE appended(found_text(scan_rows(src, lacks, rows, 1, session_dates[1], offset)),
                  session_values(src, lacks, rows, Tail(session_dates), offset))

\* if not found: missing_<field>_sessions.append(...), and the extend for a
\* participant without records: the positions of the sessions reported as missing
missing_sessions(src, lacks, rows, session_dates, offset) ==
    {j \in 1..Len(session_dates) :
        \/ Len(rows) = 0
        \/ /\ scan_rows(src, lacks, rows, 1, session_dates[j], offset).r = "ok"
           /\ ~scan_rows(src, lacks, rows, 1, session_dates[j], offset).v.found}

\* the branch on matching_rows of a field processor
field_of_rows(src, lacks, rows, session_dates, offset) ==
    IF Len(rows) = 0 THEN Ok(join(Blanks(Len(session_dates))))
    ELSE joined(session_values(src, lacks, rows, session_dates, offset))

\* the body of the loop over df['participant_id']
field_of(src, f, part, offset) ==
    IF "id" \in f.lacks THEN Raise("KeyError")
    ELSE field_of_rows(src, f.lacks, matching_rows(f, part.pid), part.sessions, offset)

process_exact_field(src, parts, d, f, offset) ==
    IF load_excel_file(f).r = "raise" THEN load_excel_file(f)
    ELSE IF load_excel_file(f).r = "none" THEN Ok(FillCol(d, src, <<>>))
    ELSE assigned(d, src,
                  Collect([i \in 1..Rows(d) |-> field_of(src, f, parts[i], offset)], 1))

process_sdmt_field(parts, d, f) == process_exact_field("sdmt", parts, d, f, 0)

process_edss_field(parts, d, f) == process_exact_field("edss", parts, d, f, 0)

process_t25fw_field(parts, d, f) == process_exact_field("t25fw", parts, d, f, 0)

process_education_field(parts, d, f, offset) == process_exact_field("education", parts, d, f, offset)

----------------------------------------------------------------------------
(* process_9hpt_fields: the outcome of one session_date *)

\* the times of a record whose hand_used is the dominant hand, as [dom, ndom],
\* with the right-hand branch a copy of the left-hand branch
hand_times_copied(hand_used, left_time, right_time) ==
    IF hand_used = "left" THEN [dom |-> left_time, ndom |-> right_time, hand |-> "left"]
    ELSE IF hand_used = "right" THEN [dom |-> left_time, ndom |-> right_time, hand |-> "right"]
    ELSE [dom |-> <<>>, ndom |-> <<>>, hand |-> ""]

\* if hand_used == 'left': ... elif hand_used == 'right': ...
hand_times(hand_used, left_time, right_time) ==
    IF hand_used = "left" THEN [dom |-> left_time, ndom |-> right_time, hand |-> "left"]
    ELSE IF hand_used = "right" THEN [dom |-> right_time, ndom |-> left_time, hand |-> "right"]
    ELSE [dom |-> <<>>, ndom |-> <<>>, hand |-> ""]

\* if hand_used == dominant_hand: the times of the record, else two empty values
hand_branch(dominant_hand, hand_used, left_time, right_time) ==
    IF hand_used = dominant_hand THEN hand_times(hand_used, left_time, right_time)
    ELSE [dom |-> <<>>, ndom |-> <<>>, hand |-> ""]

\* str(<cell>).strip().lower() if pd.notna(<cell>) else ''
hand_text(cell) == IF ~isna(cell) THEN strip_lower(cell) ELSE ""

\* the dom/ndom texts and the handedness a date-matched row yields
hand_outcome(row) ==
    hand_branch(hand_text(row.dom), hand_text(row.used), ValueText(row.left), ValueText(row.right))

\* the assignment without its guard: every valid record sets handedness
next_handedness_unguarded(current, hand) == IF hand # "" THEN hand ELSE current

\* if not handedness: handedness = <the hand of the record>
next_handedness(current, hand) == IF current = "" THEN hand ELSE current

\* a round that passes over a date-matched record that assigns no hand when a
\* later record is found
scan_9hpt_row_passing(assessment_date, lacks, row, session_date, later) ==
    IF assessment_date.r = "raise" THEN assessment_date
    ELSE IF assessment_date.r = "ok" /\ assessment_date.v = session_date
    THEN (IF "val" \in lacks THEN Raise("KeyError")
          ELSE IF hand_outcome(row).hand = "" /\ later.r = "ok" THEN later
          ELSE Ok(hand_outcome(row)))
    ELSE later

\* one round of the loop over matching_rows.iterrows() of process_9hpt_fields
scan_9hpt_row(assessment_date, lacks, row, session_date, later) ==
    IF assessment_date.r = "raise" THEN assessment_date
    ELSE IF assessment_date.r = "ok" /\ assessment_date.v = session_date
    THEN (IF "val" \in lacks THEN Raise("KeyError") ELSE Ok(hand_outcome(row)))
    ELSE later

\* the loop over matching_rows.iterrows() for one session_date: the two times and
\* the hand of the record found, empty values when none is
RECURSIVE scan_9hpt(_, _, _, _)
scan_9hpt(lacks, rows, i, session_date) ==
    IF i > Len(rows) THEN Ok([dom |-> <<>>, ndom |-> <<>>, hand |-> ""])
    ELSE IF "date" \in lacks THEN Raise("KeyError")
    ELSE IF isna(rows[i].date) THEN scan_9hpt(lacks, rows, i + 1, session_date)
    ELSE scan_9hpt_row(extract_date_from_datetime(str(rows[i].date)), lacks, rows[i],
                       session_date, scan_9hpt(lacks, rows, i + 1, session_date))

----------------------------------------------------------------------------
(* Inputs: the imaging tree and the clinical tables *)

IntV(n) == Val("int", n, 0, 0, 0)

FltV(a, b) == Val("float", a, b, 0, 0)

Long(d, m, y, z) == Val("long", d, m, y, z)

Iso(y, m, d) == Val("iso", y, m, d, 0)

Slash(d, m, y) == Val("slash", d, m, y, 0)

Dot(d, m, y) == Val("dot", d, m, y, 0)

Word(w, deco) == [k |-> "str", w |-> w, deco |-> deco]

NoWord == [k |-> "nan", w |-> "", deco |-> "plain"]

UpTo(S, n) == UNION {[1..k -> S] : k \in 0..n}

\* the orders in which iterdir can enumerate a listing
Orders(l) == {[i \in 1..Len(l) |-> l[p[i]]] : p \in Permutations(1..Len(l))}

SessionDateSet == {20180212, 20190503}

SubName(id) == [pre |-> "sub-", id |-> id, suf |-> ""]

SesName(ord, date) == [pre |-> "ses-", ord |-> ord, date |-> date, nd |-> 8, suf |-> ""]

SesDir(ord, date) == [dir |-> TRUE, name |-> SesName(ord, date)]

\* the session directories ses-01_<date>, ses-02_<date>, .. of a list of dates
Numbered(dates) == [i \in 1..Len(dates) |-> SesDir(i, dates[i])]

SubDir(id, ses) == [dir |-> TRUE, name |-> SubName(id), ses |-> ses]

\* the listing of the second subject directory, in an order that is not sorted
Sub2Listings == {<<SesDir(2, 20190503), SesDir(1, 20180212)>>}

\* a tree whose subject directories hold no session
EmptyTree == <<SubDir(1, <<>>), SubDir(2, <<>>)>>

\* a root directory that does not exist: get_participants_and_sessions returns
\* the empty dict before it lists anything, as it does for a root that holds nothing
NoRoot == <<>>

\* a tree in which sub-1 holds only a directory ses-20180212, without ordinal
UnnumberedTree == <<SubDir(1, <<SesDir(-1, 20180212)>>), SubDir(2, <<SesDir(1, 20180212)>>)>>

Trees ==
    {<<SubDir(1, s1), SubDir(2, s2)>> :
        s1 \in {Numbered(dates) : dates \in UpTo(SessionDateSet, MaxSessions)},
        s2 \in Sub2Listings}
        \cup {EmptyTree, UnnumberedTree, NoRoot}

\* listings of at most n entries with distinct names
Listings(entries, n) ==
    {l \in UpTo(entries, n) : \A i, j \in 1..Len(l) : l[i].name = l[j].name => i = j}

\* entries of a subject directory in the BIDS tree: ses-01_20180212,
\* ses-02_20180212, ses-01_20190503, ses-20180212, ses-01_201802,
\* ses-01_20180212_old and a plain file ses-03_20190503
IndexEntries ==
    {SesDir(1, 20180212), SesDir(2, 20180212), SesDir(1, 20190503),
     SesDir(-1, 20180212),
     [dir |-> TRUE, name |-> [SesName(1, 201802) EXCEPT !.nd = 6]],
     [dir |-> TRUE, name |-> [SesName(1, 20180212) EXCEPT !.suf = "_old"]],
     [dir |-> FALSE, name |-> SesName(3, 20190503)]}

\* the names sub-1, sub-1_old and 1
IndexNames == {SubName(1), [SubName(1) EXCEPT !.suf = "_old"], [SubName(1) EXCEPT !.pre = ""]}

\* BIDS trees with names that conform and names that do not
IndexTrees ==
    {<<[dir |-> TRUE, name |-> n, ses |-> l], SubDir(2, <<SesDir(1, 20190503)>>)>> :
        n \in IndexNames, l \in Listings(IndexEntries, MaxListing)}
        \cup {<<[dir |-> FALSE, name |-> SubName(1), ses |-> <<>>],
                SubDir(2, <<SesDir(1, 20190503)>>)>>}

RawName(a, id) == [a |-> a, id |-> id, suf |-> ""]

DateName(date) == [pre |-> "", ord |-> -1, date |-> date, nd |-> 8, suf |-> ""]

DateDir(date, fs) == [dir |-> TRUE, name |-> DateName(date), files |-> fs]

RawDir(name, ses) == [dir |-> TRUE, name |-> name, ses |-> ses]

\* entries of a subject directory in the input tree: 20180212, 20190503,
\* 20170101, 01_20180212, 201802 and a plain file 20190504
RawEntries ==
    {DateDir(20180212, <<>>), DateDir(20190503, <<>>), DateDir(20170101, <<>>),
     [dir |-> TRUE, name |-> [DateName(20180212) EXCEPT !.ord = 1], files |-> <<>>],
     [dir |-> TRUE, name |-> [DateName(201802) EXCEPT !.nd = 6], files |-> <<>>],
     [dir |-> FALSE, name |-> DateName(20190504), files |-> <<>>]}

\* the names 396_1, 396_1_old and notes
RawNames == {RawName(396, 1), [RawName(396, 1) EXCEPT !.suf = "_old"],
             [a |-> -1, id |-> -1, suf |-> "notes"]}

\* input trees with names that conform and names that do not
RawTrees ==
    {<<RawDir(n, l), RawDir(RawName(396, 2), <<DateDir(20190503, <<>>)>>)>> :
        n \in RawNames, l \in Listings(RawEntries, MaxListing)}
        \cup {<<[dir |-> FALSE, name |-> RawName(396, 1), ses |-> <<>>],
                RawDir(RawName(396, 2), <<DateDir(20190503, <<>>)>>)>>}

\* a NIfTI file <stem>.nii.gz: the markers in its name, the JSON file stored
\* next to it, the name of that file, <stem>.json or <stem>.nii.json, and
\* whether the image can be read by a copy
Nii(name, json, jname, readable) ==
    [name |-> name, json |-> json, jname |-> jname, readable |-> readable]

\* T1_MPRAGE.nii.gz
T1File == Nii({"T1"}, NoJson, "json", TRUE)

\* NIfTI files: named T1, T1_FLAIR and T2; named T1 with a json whose ImageType
\* says FLAIR and whose ProtocolName says T1; named FLAIR with a json that does
\* not parse; named T2 with a json whose SeriesDescription is a number; named
\* T1 with the sidecar <stem>.json of the converter, whose SeriesDescription
\* says FLAIR; named T1 and not readable
NiiFiles ==
    {T1File, Nii({"FLAIR", "T1"}, NoJson, "json", TRUE), Nii({}, NoJson, "json", TRUE),
     Nii({"T1"}, Json("ok", Text("str", {}), Text("list", {"FLAIR"}), Text("str", {"T1"})),
         "nii.json", TRUE),
     Nii({"FLAIR"}, Json("unreadable", Text("str", {}), Text("list", {}), Text("str", {})),
         "nii.json", TRUE),
     Nii({}, Json("ok", Text("other", {}), Text("list", {}), Text("str", {"T1"})),
         "nii.json", TRUE),
     Nii({"T1"}, Json("ok", Text("str", {"FLAIR"}), Text("list", {}), Text("str", {})),
         "json", TRUE),
     Nii({"T1"}, NoJson, "json", FALSE)}

\* the files tried in the directory of the later date
LaterNiiFiles == {T1File, Nii({}, NoJson, "json", TRUE), Nii({"T1"}, NoJson, "json", FALSE)}

\* the listings of subject 396_1: no date, one date, or two dates listed out of order
Sub1Dates ==
    {<<>>}
        \cup {<<DateDir(20180212, fs)>> : fs \in UpTo(NiiFiles, MaxFiles)}
        \cup {<<DateDir(20190503, gs), DateDir(20180212, fs)>> :
                 fs \in UpTo(NiiFiles, MaxFiles), gs \in UpTo(LaterNiiFiles, MaxFiles - 1)}

\* input trees: subject 396_1, subject 397_2 and a directory notes
BidsInputs ==
    {<<RawDir(RawName(396, 1), l),
       RawDir(RawName(397, 2), <<DateDir(20190503, <<T1File>>)>>),
       RawDir([a |-> -1, id |-> -1, suf |-> "notes"], <<DateDir(20180212, <<T1File>>)>>)>> :
        l \in Sub1Dates}

\* the path a file of the output tree was copied from
Source(f, ext) ==
    [origin |-> "input", subject |-> f.subject, entry |-> f.entry, k |-> f.k, ext |-> ext]

\* a file that is in the output tree before the run
Before ==
    [origin |-> "before", subject |-> RawName(-1, -1), entry |-> DateName(-1), k |-> 0,
     ext |-> "nii.gz"]

\* output trees before the run: empty, or holding the T1w image of the first
\* session of sub-1
OutputsBefore ==
    {<<>>,
     Target(bids_subject_id(RawName(396, 1)), session_label(1, 20180212), "T1w", "nii.gz")
         :> Before}

\* UTC offsets, in seconds, of the local time zone
TzOffsets == {0, 3600}

Table(lacks, rows) == [st |-> "ok", lacks |-> lacks, rows |-> rows]

Missing == [st |-> "missing", lacks |-> {}, rows |-> <<>>]

Unreadable == [st |-> "unreadable", lacks |-> {}, rows |-> <<>>]

Sources == {"sDOB", "sdmt", "hpt9", "edss", "t25fw", "education"}

\* the date 2018-02-12 and dates around it in the layout of each source
OnDate(src) ==
    CASE src = "edss" -> Slash(12, 2, 2018)
      [] src = "education" -> IntV(1518393600)
      [] OTHER -> Long(12, 2, 2018, 1)

RichDates(src) ==
    CASE src = "edss" ->
             {Slash(12, 2, 2018), Slash(10, 2, 2018), Slash(1, 6, 2019), Iso(2018, 2, 12), NaN}
      [] src = "education" ->
             {IntV(1518393600), IntV(1518390000), FltV(1518393600, 0),
              Val("bigdigits", 2, 0, 0, 0), NaN}
      [] src = "sdmt" ->
             {Long(12, 2, 2018, 1), Long(3, 5, 2019, 1), Long(12, 2, 2018, -1), NaN}
      [] OTHER -> {Long(12, 2, 2018, 1), Long(3, 5, 2019, 1)}

\* the dates, among those of a source, near the session date 2019-05-03
LaterDates(src) == RichDates(src) \cap {Slash(1, 6, 2019), Long(3, 5, 2019, 1)}

Row(id, date, val) == [id |-> id, date |-> date, val |-> val]

\* the records tried for one source besides those of RichRows: a record with an
\* empty value cell, a record of the other subject
ExtraRows(src) ==
    (IF src = "sdmt" THEN {Row(IntV(1), OnDate(src), NaN)} ELSE {})
        \cup (IF src \in {"sdmt", "edss"}
              THEN {Row(Val("padded", 2, 0, 0, 0), OnDate(src), IntV(7))} ELSE {})

\* the records tried for a source: the value 2.5 under every date about 2018-02-12,
\* the value 3.0 on 2018-02-12 and on the dates about 2019-05-03
RichRows(src) ==
    {Row(IntV(1), dt, FltV(2, 5)) : dt \in RichDates(src) \ LaterDates(src)}
        \cup {Row(IntV(1), dt, FltV(3, 0)) : dt \in {OnDate(src)} \cup LaterDates(src)}
        \cup ExtraRows(src)

HptRow(id, date, dom, used) ==
    [id |-> id, date |-> date, dom |-> dom, used |-> used,
     left |-> FltV(28, 1), right |-> FltV(19, 4)]

HandPairs ==
    {<<Word("right", "caps"), Word("right", "plain")>>,
     <<Word("left", "plain"), Word("left", "plain")>>,
     <<Word("right", "plain"), Word("left", "plain")>>,
     <<NoWord, NoWord>>}

\* the pairs tried on the second session date
LaterHandPairs == {h \in HandPairs : h[2] = Word("left", "plain")}

RichHptRows ==
    {HptRow(IntV(1), Long(12, 2, 2018, 1), h[1], h[2]) : h \in HandPairs}
        \cup {HptRow(IntV(1), Long(3, 5, 2019, 1), h[1], h[2]) : h \in LaterHandPairs}
        \cup {HptRow(IntV(2), Long(12, 2, 2018, 1), Word("left", "plain"), Word("left", "plain"))}

DobRow(id, dob, gender, diag) == [id |-> id, dob |-> dob, gender |-> gender, diag |-> diag]

DefaultRows(src) ==
    CASE src = "sDOB" ->
             <<DobRow(IntV(1), Dot(1, 1, 1980), Word("male", "caps"), IntV(2010)),
               DobRow(IntV(2), NaN, NoWord, NaN)>>
      [] src = "hpt9" ->
             <<HptRow(IntV(1), Long(12, 2, 2018, 1), Word("right", "plain"), Word("right", "plain"))>>
      [] OTHER -> <<Row(IntV(1), OnDate(src), FltV(2, 5))>>

\* birth dates in another layout than 'dd.mm.yyyy', and a birth date of sub-2
IsoDobRows ==
    <<DobRow(IntV(1), Iso(1980, 1, 1), Word("male", "caps"), IntV(2010)),
      DobRow(IntV(2), Dot(1, 1, 1990), NoWord, NaN)>>

\* the column whose absence the failure profile tries for each source
LackedColumn(src) == IF src = "sDOB" THEN "dob" ELSE "val"

\* the files of a run in which any source may be absent, unreadable or lack a column
FailureFiles ==
    [src \in Sources |->
        {Missing, Table({}, DefaultRows(src)), Table({LackedColumn(src)}, DefaultRows(src))}
            \cup (IF src \in {"sDOB", "edss"} THEN {Unreadable} ELSE {})
            \cup (IF src = "sdmt" THEN {Table({"id"}, DefaultRows(src))} ELSE {})]

\* the files of a run in which every source is present and complete
DefaultFiles == [src \in Sources |-> {Table({}, DefaultRows(src))}]

\* the tables tried for one source while the other sources hold their default
RichFiles ==
    [src \in Sources |->
        IF src = "sDOB" THEN DefaultFiles[src] \cup {Table({}, IsoDobRows)}
        ELSE IF src = "hpt9" THEN {Table({}, rows) : rows \in UpTo(RichHptRows, MaxRows)}
        ELSE {Table({}, rows) : rows \in UpTo(RichRows(src), MaxRows)}]

FailureProfile == [base |-> FailureFiles, rich |-> FailureFiles]

MatchProfile == [base |-> DefaultFiles, rich |-> RichFiles]

\* the default tables, or an education record of 2018-02-11 23:00:00 UTC
TwiceProfile ==
    [base |-> DefaultFiles,
     rich |-> [DefaultFiles EXCEPT
                  !["education"] = {Table({}, <<Row(IntV(1), IntV(1518390000), FltV(2, 5))>>)}]]

\* the contents a load of src may find: the file read before stays as it was, and
\* at most one source of a run holds a table outside the base set
Loadable(P, src) ==
    IF files[src].st # "unread" THEN {files[src]}
    ELSE IF \E s \in Sources : files[s].st # "unread" /\ files[s] \notin P.base[s]
    THEN P.base[src]
    ELSE P.base[src] \cup P.rich[src]

----------------------------------------------------------------------------
(* main *)

column_order == <<"participant_id", "session", "age", "sex", "is_ms", "sdmt",
                  "9hpt_dom", "9hpt_ndom", "handedness", "edss", "t25fw", "education">>

NoTable == [header |-> <<>>, data |-> EmptyFrame]

NoCall == [r |-> "idle", v |-> 0, e |-> ""]

Pending == [r |-> "pending", v |-> 0, e |-> ""]

loopVars == <<idx, si, handedness, session_dom, session_ndom>>

Init ==
    /\ tree \in Trees
    /\ files = [src \in Sources |-> Unread]
    /\ loads = [src \in Sources |-> 0]
    /\ tz = 0
    /\ participants = <<>>
    /\ df = EmptyFrame
    /\ pc = "start"
    /\ written = NoTable
    /\ idx = 0 /\ si = 0 /\ handedness = ""
    /\ session_dom = <<>> /\ session_ndom = <<>>
    /\ nfn = "" /\ narg = PyNone /\ nses = PyNone /\ nout = NoCall
    /\ run = 1 /\ first_written = NoTable /\ changed = 0 /\ given = EmptyFrame
    /\ input_path = NoInput /\ dicom_dirs = <<>> /\ di = 0
    /\ success_count = 0 /\ fail_count = 0 /\ converted = {} /\ dpc = "idle"
    /\ input_root = <<>> /\ session_mapping = <<>> /\ nifti_files = <<>>
    /\ fi = 0 /\ bids = <<>> /\ anat_dirs = {}
    /\ processed_count = 0 /\ skipped_count = 0 /\ bpc = "idle"

\* the end of a field step: the new frame, or the exception that leaves main
Finish(res, next) ==
    IF res.r = "raise"
    THEN pc' = "crashed" /\ df' = df
    ELSE pc' = next /\ df' = res.v

GetParticipants ==
    /\ pc = "start"
    /\ participants' = get_participants_and_sessions(tree)
    /\ pc' = IF Len(participants') = 0 THEN "aborted" ELSE "participant_id"
    /\ UNCHANGED <<tree, files, loads, tz, df, written, loopVars, normVars, runVars, bidsVars, dcmVars>>

\* process_participant_id_field
ProcessParticipantId ==
    /\ pc = "participant_id"
    /\ df' = SetCol(EmptyFrame, "participant_id",
                    [i \in 1..Len(participants) |-> participants[i].pid])
    /\ pc' = "session"
    /\ UNCHANGED <<tree, files, loads, tz, participants, written, loopVars, normVars, runVars, bidsVars, dcmVars>>

\* process_session_field
ProcessSession ==
    /\ pc = "session"
    /\ df' = SetCol(df, "session",
                    [i \in 1..Rows(df) |->
                        join([j \in 1..Len(participants[i].sessions) |->
                                 <<Val("digits", participants[i].sessions[j], 0, 0, 0)>>])])
    /\ pc' = "age"
    /\ UNCHANGED <<tree, files, loads, tz, participants, written, loopVars, normVars, runVars, bidsVars, dcmVars>>

ProcessAge(P) ==
    /\ pc = "age"
    /\ \E f \in Loadable(P, "sDOB") :
          /\ files' = [files EXCEPT !["sDOB"] = f]
          /\ loads' = [loads EXCEPT !["sDOB"] = @ + 1]
          /\ Finish(process_age_field(participants, df, f), "sex")
    /\ UNCHANGED <<tree, tz, participants, written, loopVars, normVars, runVars, bidsVars, dcmVars>>

ProcessSex(P) ==
    /\ pc = "sex"
    /\ \E f \in Loadable(P, "sDOB") :
          /\ files' = [files EXCEPT !["sDOB"] = f]
          /\ loads' = [loads EXCEPT !["sDOB"] = @ + 1]
          /\ Finish(process_sex_field(df, f), "is_ms")
    /\ UNCHANGED <<tree, tz, participants, written, loopVars, normVars, runVars, bidsVars, dcmVars>>

ProcessIsMs(P) ==
    /\ pc = "is_ms"
    /\ \E f \in Loadable(P, "sDOB") :
          /\ files' = [files EXCEPT !["sDOB"] = f]
          /\ loads' = [loads EXCEPT !["sDOB"] = @ + 1]
          /\ Finish(process_is_ms_field(df, f), "sdmt")
    /\ UNCHANGED <<tree, tz, participants, written, loopVars, normVars, runVars, bidsVars, dcmVars>>

ProcessSdmt(P) ==
    /\ pc = "sdmt"
    /\ \E f \in Loadable(P, "sdmt") :
          /\ files' = [files EXCEPT !["sdmt"] = f]
          /\ loads' = [loads EXCEPT !["sdmt"] = @ + 1]
          /\ Finish(process_sdmt_field(participants, df, f), "9hpt")
    /\ UNCHANGED <<tree, tz, participants, written, loopVars, normVars, runVars, bidsVars, dcmVars>>

\* process_9hpt_fields up to the loop over the participants
Hpt9Begin(P) ==
    /\ pc = "9hpt"
    /\ \E f \in Loadable(P, "hpt9") :
          /\ files' = [files EXCEPT !["hpt9"] = f]
          /\ loads' = [loads EXCEPT !["hpt9"] = @ + 1]
          /\ pc' = CASE load_excel_file(f).r = "raise" -> "crashed"
                    [] load_excel_file(f).r = "none" -> "edss"
                    [] OTHER -> "9hpt_participant"
    /\ df' = FillCol(FillCol(FillCol(df, "9hpt_dom", <<>>), "9hpt_ndom", <<>>), "handedness", "")
    /\ idx' = 1
    /\ UNCHANGED <<tree, tz, participants, written, si, handedness,
                   session_dom, session_ndom, normVars, runVars, bidsVars, dcmVars>>

\* one participant of process_9hpt_fields, up to the loop over the session dates
Hpt9Participant ==
    /\ pc = "9hpt_participant"
    /\ idx <= Rows(df)
    /\ IF "id" \in files["hpt9"].lacks
       THEN /\ pc' = "crashed"
            /\ UNCHANGED <<df, loopVars>>
       ELSE IF Len(matching_rows(files["hpt9"], df["participant_id"][idx])) = 0
       THEN /\ df' = SetAt(SetAt(SetAt(df,
                        idx, "9hpt_dom", join(Blanks(Len(SessionDates(participants, idx))))),
                        idx, "9hpt_ndom", join(Blanks(Len(SessionDates(participants, idx))))),
                        idx, "handedness", "")
            /\ idx' = idx + 1
            /\ pc' = pc
            /\ UNCHANGED <<si, handedness, session_dom, session_ndom>>
       ELSE /\ session_dom' = <<>>
            /\ session_ndom' = <<>>
            /\ handedness' = df["handedness"][idx]
            /\ si' = 1
            /\ pc' = "9hpt_session"
            /\ UNCHANGED <<df, idx>>
    /\ UNCHANGED <<tree, files, loads, tz, participants, written, normVars, runVars, bidsVars, dcmVars>>

\* one session date of the participant
Hpt9Session ==
    /\ pc = "9hpt_session"
    /\ si <= Len(SessionDates(participants, idx))
    /\ LET res == scan_9hpt(files["hpt9"].lacks,
                            matching_rows(files["hpt9"], df["participant_id"][idx]),
                            1, SessionDates(participants, idx)[si])
       IN IF res.r = "raise"
          THEN /\ pc' = "crashed"
               /\ UNCHANGED loopVars
          ELSE /\ session_dom' = Append(session_dom, res.v.dom)
               /\ session_ndom' = Append(session_ndom, res.v.ndom)
               /\ handedness' = next_handedness(handedness, res.v.hand)
               /\ si' = si + 1
               /\ pc' = pc
               /\ idx' = idx
    /\ UNCHANGED <<tree, files, loads, tz, participants, df, written, normVars, runVars, bidsVars, dcmVars>>

\* the participant's results are written to the row
Hpt9Store ==
    /\ pc = "9hpt_session"
    /\ si > Len(SessionDates(participants, idx))
    /\ df' = SetAt(SetAt(SetAt(df, idx, "9hpt_dom", join(session_dom)),
                         idx, "9hpt_ndom", join(session_ndom)),
                   idx, "handedness", handedness)
    /\ idx' = idx + 1
    /\ pc' = "9hpt_participant"
    /\ UNCHANGED <<tree, files, loads, tz, participants, written, si, handedness,
                   session_dom, session_ndom, normVars, runVars, bidsVars, dcmVars>>

\* the loop over the participants is over
Hpt9End ==
    /\ pc = "9hpt_participant"
    /\ idx > Rows(df)
    /\ pc' = "edss"
    /\ UNCHANGED <<tree, files, loads, tz, participants, df, written, loopVars, normVars, runVars, bidsVars, dcmVars>>

ProcessEdss(P) ==
    /\ pc = "edss"
    /\ \E f \in Loadable(P, "edss") :
          /\ files' = [files EXCEPT !["edss"] = f]
          /\ loads' = [loads EXCEPT !["edss"] = @ + 1]
          /\ Finish(process_edss_field(participants, df, f), "t25fw")
    /\ UNCHANGED <<tree, tz, participants, written, loopVars, normVars, runVars, bidsVars, dcmVars>>

ProcessT25fw(P) ==
    /\ pc = "t25fw"
    /\ \E f \in Loadable(P, "t25fw") :
          /\ files' = [files EXCEPT !["t25fw"] = f]
          /\ loads' = [loads EXCEPT !["t25fw"] = @ + 1]
          /\ Finish(process_t25fw_field(participants, df, f), "education")
    /\ UNCHANGED <<tree, tz, participants, written, loopVars, normVars, runVars, bidsVars, dcmVars>>

\* the local time zone is read by the first fromtimestamp of the run
ProcessEducation(P) ==
    /\ pc = "education"
    /\ \E f \in Loadable(P, "education"), offset \in TzOffsets :
          /\ files' = [files EXCEPT !["education"] = f]
          /\ loads' = [loads EXCEPT !["education"] = @ + 1]
          /\ tz' = offset
          /\ Finish(process_education_field(participants, df, f, offset), "write")
    /\ UNCHANGED <<tree, participants, written, loopVars, normVars, runVars, bidsVars, dcmVars>>

\* df = df[column_order]; df.to_csv(OUTPUT_FILE, sep='\t', index=False)
WriteTable ==
    /\ pc = "write"
    /\ written' = [header |-> column_order,
                   data |-> [c \in {column_order[i] : i \in 1..Len(column_order)} |-> df[c]]]
    /\ pc' = "done"
    /\ UNCHANGED <<tree, files, loads, tz, participants, df, loopVars, normVars, runVars, bidsVars, dcmVars>>

Step(P) ==
    \/ GetParticipants
    \/ ProcessParticipantId
    \/ ProcessSession
    \/ ProcessAge(P)
    \/ ProcessSex(P)
    \/ ProcessIsMs(P)
    \/ ProcessSdmt(P)
    \/ Hpt9Begin(P)
    \/ Hpt9Participant
    \/ Hpt9Session
    \/ Hpt9Store
    \/ Hpt9End
    \/ ProcessEdss(P)
    \/ ProcessT25fw(P)
    \/ ProcessEducation(P)
    \/ WriteTable

\* runs in which sources may be absent, unreadable or incomplete
Next == Step(FailureProfile)

Spec == Init /\ [][Next]_vars

\* runs in which every source is present and one of them holds any of the rich tables
NextMatch == Step(MatchProfile)

SpecMatch == Init /\ [][NextMatch]_vars

\* a second run of main over the same directories and the same tables: the
\* directories are enumerated again, the files read in the first run are as
\* they were
Rerun ==
    /\ pc = "done" /\ run = 1
    /\ run' = 2
    /\ first_written' = written
    /\ tree' \in Orders(tree)
    /\ participants' = <<>>
    /\ df' = EmptyFrame
    /\ pc' = "start"
    /\ written' = NoTable
    /\ idx' = 0 /\ si' = 0 /\ handedness' = ""
    /\ session_dom' = <<>> /\ session_ndom' = <<>>
    /\ loads' = [src \in Sources |-> 0]
    /\ UNCHANGED <<files, tz, changed, given, normVars, bidsVars, dcmVars>>

NextTwice == Step(TwiceProfile) \/ Rerun

SpecTwice == Init /\ [][NextTwice]_vars

\* the records put before the rows of a source for participant p: a record on
\* the session date 2018-02-12, and for the education table also a record
\* whose 'Date' is an epoch in nanoseconds
OtherRecords(src, p) ==
    IF src = "hpt9"
      THEN {HptRow(IntV(p), Long(12, 2, 2018, 1), Word("left", "plain"), Word("left", "plain"))}
    ELSE {Row(IntV(p), OnDate(src), FltV(3, 0))}
             \cup (IF src = "education"
                   THEN {Row(IntV(p), Val("bigdigits", 2, 0, 0, 0), FltV(3, 0))} ELSE {})

\* a second run of main over the same tree after a record of one participant
\* was added to one table
RerunOthers ==
    /\ pc = "done" /\ run = 1
    /\ run' = 2
    /\ first_written' = written
    /\ \E src \in Sources \ {"sDOB"}, p \in {1, 2} : \E r \in OtherRecords(src, p) :
          /\ files[src].st = "ok"
          /\ files' = [files EXCEPT ![src].rows = <<r>> \o @]
          /\ changed' = p
    /\ participants' = <<>>
    /\ df' = EmptyFrame
    /\ pc' = "start"
    /\ written' = NoTable
    /\ idx' = 0 /\ si' = 0 /\ handedness' = ""
    /\ session_dom' = <<>> /\ session_ndom' = <<>>
    /\ loads' = [src \in Sources |-> 0]
    /\ UNCHANGED <<tree, tz, given, normVars, bidsVars, dcmVars>>

DefaultProfile == [base |-> DefaultFiles, rich |-> DefaultFiles]

NextOthers == Step(DefaultProfile) \/ RerunOthers

SpecOthers == Init /\ [][NextOthers]_vars

\* the values of a handedness cell of the table process_9hpt_fields is called with
Hands == {"", "left", "right"}

\* the 9HPT file is absent, or holds any of the rich tables
HandProfile == [base |-> FailureFiles, rich |-> RichFiles]

\* process_9hpt_fields is called on the table of the participants and their
\* sessions, to which a handedness column was added before the call
HandInit ==
    /\ tree \in Trees
    /\ files = [src \in Sources |-> Unread]
    /\ loads = [src \in Sources |-> 0]
    /\ tz = 0
    /\ participants = get_participants_and_sessions(tree)
    /\ Len(participants) > 0
    /\ \E hands \in [1..Len(participants) -> Hands] :
          df = SetCol(SetCol(SetCol(EmptyFrame,
                   "participant_id", [i \in 1..Len(participants) |-> participants[i].pid]),
                   "session", [i \in 1..Len(participants) |-> <<>>]),
                   "handedness", hands)
    /\ given = df
    /\ pc = "9hpt"
    /\ written = NoTable
    /\ idx = 0 /\ si = 0 /\ handedness = ""
    /\ session_dom = <<>> /\ session_ndom = <<>>
    /\ nfn = "" /\ narg = PyNone /\ nses = PyNone /\ nout = NoCall
    /\ run = 1 /\ first_written = NoTable /\ changed = 0
    /\ input_path = NoInput /\ dicom_dirs = <<>> /\ di = 0
    /\ success_count = 0 /\ fail_count = 0 /\ converted = {} /\ dpc = "idle"
    /\ input_root = <<>> /\ session_mapping = <<>> /\ nifti_files = <<>>
    /\ fi = 0 /\ bids = <<>> /\ anat_dirs = {}
    /\ processed_count = 0 /\ skipped_count = 0 /\ bpc = "idle"

HandNext ==
    \/ Hpt9Begin(HandProfile)
    \/ Hpt9Participant
    \/ Hpt9Session
    \/ Hpt9Store
    \/ Hpt9End

SpecHand == HandInit /\ [][HandNext]_vars

\* records of subject 1 for an exact-date source: on the session date 2018-02-12
\* with a value cell that is NaN, that is '' or that holds 3.0, and a record of
\* 2019-05-03 with an empty cell
EmptyValueRows(src) ==
    {Row(IntV(1), OnDate(src), v) : v \in {NaN, EmptyStr, FltV(3, 0)}}
        \cup {Row(IntV(1), dt, NaN) : dt \in LaterDates(src)}

\* the default tables, or for one exact-date source a table of such records
EmptyValueProfile ==
    [base |-> DefaultFiles,
     rich |-> [src \in Sources |->
                  IF src \in {"sdmt", "edss", "t25fw", "education"}
                  THEN {Table({}, rows) : rows \in UpTo(EmptyValueRows(src), MaxRows)}
                  ELSE DefaultFiles[src]]]

NextEmptyValue == Step(EmptyValueProfile)

SpecEmptyValue == Init /\ [][NextEmptyValue]_vars

----------------------------------------------------------------------------
(* Calls of the date normalizers and of calculate_age on one argument *)

NormDates == {<<12, 2, 2018>>, <<3, 5, 2019>>, <<31, 2, 2018>>, <<29, 2, 2016>>}

NormNumbers == {1518393600, 1518390000, 20180212, 20190503, 0}

PyValues ==
    {PyNone, NaN, EmptyStr, Val("inf", 0, 0, 0, 0), Val("text", 0, 0, 0, 0)}
        \cup {Val(k, n, 0, 0, 0) : k \in {"int", "float", "digits", "floatstr"}, n \in NormNumbers}
        \cup {Val("bigdigits", c, 0, 0, 0) : c \in 1..3}
        \cup {Val(k, t[1], t[2], t[3], 0) : k \in {"slash", "dot"}, t \in NormDates}
        \cup {Val(k, t[3], t[2], t[1], 0) : k \in {"iso", "isotime", "ts"}, t \in NormDates}
        \cup {Long(t[1], t[2], t[3], z) : t \in NormDates, z \in {-1, 0, 1}}

SessionArgs == {Val("digits", 20180212, 0, 0, 0), Val("digits", 20189999, 0, 0, 0), PyNone}

NormFunctions == {"extract_date_from_timestamp", "extract_date_from_datetime",
                  "extract_date_from_visitdate", "calculate_age"}

NormInit ==
    /\ tree = <<>>
    /\ files = [src \in Sources |-> Unread]
    /\ loads = [src \in Sources |-> 0]
    /\ tz \in TzOffsets
    /\ participants = <<>>
    /\ df = EmptyFrame
    /\ pc = "idle"
    /\ written = NoTable
    /\ idx = 0 /\ si = 0 /\ handedness = ""
    /\ session_dom = <<>> /\ session_ndom = <<>>
    /\ nfn \in NormFunctions
    /\ narg \in PyValues
    /\ nses \in IF nfn = "calculate_age" THEN SessionArgs ELSE {PyNone}
    /\ nout = Pending
    /\ run = 1 /\ first_written = NoTable /\ changed = 0 /\ given = EmptyFrame
    /\ input_path = NoInput /\ dicom_dirs = <<>> /\ di = 0
    /\ success_count = 0 /\ fail_count = 0 /\ converted = {} /\ dpc = "idle"
    /\ input_root = <<>> /\ session_mapping = <<>> /\ nifti_files = <<>>
    /\ fi = 0 /\ bids = <<>> /\ anat_dirs = {}
    /\ processed_count = 0 /\ skipped_count = 0 /\ bpc = "idle"

CallTimestamp ==
    /\ nfn = "extract_date_from_timestamp" /\ nout = Pending
    /\ nout' = extract_date_from_timestamp(narg, tz)
    /\ UNCHANGED <<mainVars, nfn, narg, nses, runVars, bidsVars, dcmVars>>

CallDatetime ==
    /\ nfn = "extract_date_from_datetime" /\ nout = Pending
    /\ nout' = extract_date_from_datetime(narg)
    /\ UNCHANGED <<mainVars, nfn, narg, nses, runVars, bidsVars, dcmVars>>

CallVisitdate ==
    /\ nfn = "extract_date_from_visitdate" /\ nout = Pending
    /\ nout' = extract_date_from_visitdate(narg)
    /\ UNCHANGED <<mainVars, nfn, narg, nses, runVars, bidsVars, dcmVars>>

CallAge ==
    /\ nfn = "calculate_age" /\ nout = Pending
    /\ nout' = calculate_age(narg, nses)
    /\ UNCHANGED <<mainVars, nfn, narg, nses, runVars, bidsVars, dcmVars>>

NormNext == CallTimestamp \/ CallDatetime \/ CallVisitdate \/ CallAge

SpecNorm == NormInit /\ [][NormNext]_vars

----------------------------------------------------------------------------
(* The two indexes of sessions on trees whose names need not conform:      *)
(* get_participants_and_sessions over a BIDS tree and                      *)
(* build_session_mapping over an input tree                                *)

IndexInit ==
    /\ \/ tree \in IndexTrees /\ input_root = <<>>
       \/ tree = <<>> /\ input_root \in RawTrees
    /\ files = [src \in Sources |-> Unread]
    /\ loads = [src \in Sources |-> 0]
    /\ tz = 0
    /\ participants = <<>>
    /\ df = EmptyFrame
    /\ pc = "start"
    /\ written = NoTable
    /\ idx = 0 /\ si = 0 /\ handedness = ""
    /\ session_dom = <<>> /\ session_ndom = <<>>
    /\ nfn = "" /\ narg = PyNone /\ nses = PyNone /\ nout = NoCall
    /\ run = 1 /\ first_written = NoTable /\ changed = 0 /\ given = EmptyFrame
    /\ input_path = NoInput /\ dicom_dirs = <<>> /\ di = 0
    /\ success_count = 0 /\ fail_count = 0 /\ converted = {} /\ dpc = "idle"
    /\ session_mapping = <<>> /\ nifti_files = <<>>
    /\ fi = 0 /\ bids = <<>> /\ anat_dirs = {}
    /\ processed_count = 0 /\ skipped_count = 0 /\ bpc = "call"

\* session_mapping = build_session_mapping(input_path)
BuildSessionMapping ==
    /\ bpc = "call"
    /\ session_mapping' = build_session_mapping(input_root)
    /\ bpc' = "returned"
    /\ UNCHANGED <<mainVars, normVars, runVars, dcmVars, input_root, nifti_files, fi, bids,
                   anat_dirs, processed_count, skipped_count>>

IndexNext == GetParticipants \/ BuildSessionMapping

SpecIndex == IndexInit /\ [][IndexNext]_vars

----------------------------------------------------------------------------
(* organize_to_bids *)

BidsInit ==
    /\ tree = <<>>
    /\ files = [src \in Sources |-> Unread]
    /\ loads = [src \in Sources |-> 0]
    /\ tz = 0
    /\ participants = <<>>
    /\ df = EmptyFrame
    /\ pc = "idle"
    /\ written = NoTable
    /\ idx = 0 /\ si = 0 /\ handedness = ""
    /\ session_dom = <<>> /\ session_ndom = <<>>
    /\ nfn = "" /\ narg = PyNone /\ nses = PyNone /\ nout = NoCall
    /\ run = 1 /\ first_written = NoTable /\ changed = 0 /\ given = EmptyFrame
    /\ input_path = NoInput /\ dicom_dirs = <<>> /\ di = 0
    /\ success_count = 0 /\ fail_count = 0 /\ converted = {} /\ dpc = "idle"
    /\ \/ input_root \in BidsInputs /\ bpc = "start"
       \/ input_root = <<>> /\ bpc = "no_input"
    /\ session_mapping = <<>> /\ nifti_files = <<>> /\ fi = 0
    /\ bids \in OutputsBefore
    /\ anat_dirs = {[sub |-> t.sub, ses |-> t.ses] : t \in DOMAIN bids}
    /\ processed_count = 0 /\ skipped_count = 0

\* if not input_path.exists(): return
OrganizeNoInput ==
    /\ bpc = "no_input"
    /\ bpc' = "done"
    /\ UNCHANGED <<mainVars, normVars, runVars, dcmVars, input_root, session_mapping, nifti_files,
                   fi, bids, anat_dirs, processed_count, skipped_count>>

\* the session mapping and the list of the NIfTI files, in the order of the
\* listings or in the opposite order
OrganizeBegin ==
    /\ bpc = "start"
    /\ session_mapping' = build_session_mapping(input_root)
    /\ nifti_files' \in {rglob(input_root), reversed(rglob(input_root))}
    /\ fi' = 1
    /\ bpc' = "files"
    /\ UNCHANGED <<mainVars, normVars, runVars, dcmVars, input_root, bids, anat_dirs,
                   processed_count, skipped_count>>

\* the copies of one file whose subject, session label and modality are known
organized(out, f, sub, label, modality) ==
    IF with_suffix(f).st = "absent"
      THEN copied(out, Target(sub, label, modality, "nii.gz"), Source(f, "nii.gz"))
    ELSE copied(copied(out, Target(sub, label, modality, "nii.gz"), Source(f, "nii.gz")),
                Target(sub, label, modality, "json"), Source(f, "json"))

\* one pass of the loop over nifti_files; a copy of an image that cannot be read
\* raises after the anat directory was made, and the except clause counts the
\* file as skipped
organize_file(f, meta, modality) ==
    IF \/ ~meta.found
       \/ modality = NoModality
       \/ <<meta.subject_id, meta.session_date>> \notin DOMAIN session_mapping
      THEN /\ skipped_count' = skipped_count + 1
           /\ UNCHANGED <<bids, anat_dirs, processed_count>>
    ELSE IF /\ ~f.readable
            /\ Target(bids_subject_id(meta.subject_id),
                      session_mapping[<<meta.subject_id, meta.session_date>>],
                      modality, "nii.gz") \notin DOMAIN bids
      THEN /\ anat_dirs' = anat_dirs \cup
                  {[sub |-> bids_subject_id(meta.subject_id),
                    ses |-> session_mapping[<<meta.subject_id, meta.session_date>>]]}
           /\ skipped_count' = skipped_count + 1
           /\ UNCHANGED <<bids, processed_count>>
    ELSE /\ anat_dirs' = anat_dirs \cup
                {[sub |-> bids_subject_id(meta.subject_id),
                  ses |-> session_mapping[<<meta.subject_id, meta.session_date>>]]}
         /\ bids' = organized(bids, f, bids_subject_id(meta.subject_id),
                              session_mapping[<<meta.subject_id, meta.session_date>>],
                              modality)
         /\ processed_count' = processed_count + 1
         /\ UNCHANGED skipped_count

OrganizeFile ==
    /\ bpc = "files" /\ fi <= Len(nifti_files)
    /\ organize_file(nifti_files[fi], path_metadata(nifti_files[fi]),
                     modality_of(nifti_files[fi]))
    /\ fi' = fi + 1
    /\ UNCHANGED <<mainVars, normVars, runVars, dcmVars, input_root, session_mapping, nifti_files, bpc>>

\* the end of the loop
OrganizeEnd ==
    /\ bpc = "files" /\ fi > Len(nifti_files)
    /\ bpc' = "done"
    /\ UNCHANGED <<mainVars, normVars, runVars, dcmVars, input_root, session_mapping, nifti_files,
                   fi, bids, anat_dirs, processed_count, skipped_count>>

BidsNext == OrganizeNoInput \/ OrganizeBegin \/ OrganizeFile \/ OrganizeEnd

SpecBids == BidsInit /\ [][BidsNext]_vars

----------------------------------------------------------------------------
(* dicom_to_nifti.py: process_dresden_dataset                               *)

\* an entry of a subject directory: dir says whether it is a directory, raw
\* what <entry>/raw is ("absent", "file", "empty": a directory without *.dcm,
\* "dcm": a directory with *.dcm files), env what the conversion of the
\* directory meets ("ok", "exit": dcm2niix ends with a non-zero code,
\* "oserror": dcm2niix cannot be started, "mkdir": the output directory cannot
\* be created)
DcmEntry(dir, raw, env) == [dir |-> dir, raw |-> raw, env |-> env]

\* os.makedirs stands before the try block; the two except clauses turn every
\* exception of the try block into (False, message)
convert_dicom_to_nifti(env) ==
    CASE env = "mkdir" -> Raise("OSError")
      [] env = "ok" -> Ok(TRUE)
      [] OTHER -> Ok(FALSE)

\* the loop over subject_dir.iterdir(): the date directories whose raw
\* directory holds *.dcm files, in the order of the listing
RECURSIVE scan_dates(_, _, _)
scan_dates(subject, entries, i) ==
    IF i > Len(entries) THEN <<>>
    ELSE (IF entries[i].dir /\ entries[i].raw = "dcm"
          THEN <<[subject |-> subject, date |-> i, env |-> entries[i].env]>>
          ELSE <<>>) \o scan_dates(subject, entries, i + 1)

\* the loop over input_path.iterdir()
RECURSIVE scan_subjects(_, _)
scan_subjects(items, i) ==
    IF i > Len(items) THEN <<>>
    ELSE (IF items[i].dir THEN scan_dates(i, items[i].entries, 1) ELSE <<>>)
             \o scan_subjects(items, i + 1)

DcmEntries ==
    {DcmEntry(FALSE, "absent", "ok")}
        \cup {DcmEntry(TRUE, raw, "ok") : raw \in {"absent", "file", "empty"}}
        \cup {DcmEntry(TRUE, "dcm", env) : env \in {"ok", "exit", "oserror", "mkdir"}}

\* the input directory is missing, or holds a subject directory with up to
\* MaxListing entries, alone or followed by a file or by a second subject
\* directory whose one date directory converts
DcmInputs ==
    {NoInput} \cup
    {[exists |-> TRUE, items |-> <<[dir |-> TRUE, entries |-> l]>> \o rest] :
        l \in UpTo(DcmEntries, MaxListing),
        rest \in {<<>>, <<[dir |-> FALSE, entries |-> <<>>]>>,
                  <<[dir |-> TRUE, entries |-> <<DcmEntry(TRUE, "dcm", "ok")>>]>>}}

DcmInit ==
    /\ tree = <<>>
    /\ files = [src \in Sources |-> Unread]
    /\ loads = [src \in Sources |-> 0]
    /\ tz = 0
    /\ participants = <<>>
    /\ df = EmptyFrame
    /\ pc = "idle"
    /\ written = NoTable
    /\ idx = 0 /\ si = 0 /\ handedness = ""
    /\ session_dom = <<>> /\ session_ndom = <<>>
    /\ nfn = "" /\ narg = PyNone /\ nses = PyNone /\ nout = NoCall
    /\ run = 1 /\ first_written = NoTable /\ changed = 0 /\ given = EmptyFrame
    /\ input_root = <<>> /\ session_mapping = <<>> /\ nifti_files = <<>>
    /\ fi = 0 /\ bids = <<>> /\ anat_dirs = {}
    /\ processed_count = 0 /\ skipped_count = 0 /\ bpc = "idle"
    /\ input_path \in DcmInputs /\ dicom_dirs = <<>> /\ di = 0
    /\ success_count = 0 /\ fail_count = 0 /\ converted = {} /\ dpc = "start"

\* if not input_path.exists(): return
DcmNoInput ==
    /\ dpc = "start" /\ ~input_path.exists
    /\ dpc' = "returned"
    /\ UNCHANGED <<mainVars, normVars, runVars, bidsVars,
                   input_path, dicom_dirs, di, success_count, fail_count, converted>>

\* the scan of the input directory
DcmScan ==
    /\ dpc = "start" /\ input_path.exists
    /\ dicom_dirs' = scan_subjects(input_path.items, 1)
    /\ success_count' = 0 /\ fail_count' = 0
    /\ di' = 1
    /\ dpc' = "convert"
    /\ UNCHANGED <<mainVars, normVars, runVars, bidsVars, input_path, converted>>

\* one round of the loop over dicom_dirs
DcmConvert ==
    /\ dpc = "convert" /\ di <= Len(dicom_dirs)
    /\ LET res == convert_dicom_to_nifti(dicom_dirs[di].env)
       IN IF res.r = "raise"
          THEN /\ dpc' = "crashed"
               /\ UNCHANGED <<di, success_count, fail_count, converted>>
          ELSE /\ success_count' = IF res.v THEN success_count + 1 ELSE success_count
               /\ fail_count' = IF res.v THEN fail_count ELSE fail_count + 1
               /\ converted' = IF res.v THEN converted \cup {di} ELSE converted
               /\ di' = di + 1
               /\ dpc' = dpc
    /\ UNCHANGED <<mainVars, normVars, runVars, bidsVars, input_path, dicom_dirs>>

\* the summary after the loop
DcmEnd ==
    /\ dpc = "convert" /\ di > Len(dicom_dirs)
    /\ dpc' = "done"
    /\ UNCHANGED <<mainVars, normVars, runVars, bidsVars,
                   input_path, dicom_dirs, di, success_count, fail_count, converted>>

DcmNext == DcmNoInput \/ DcmScan \/ DcmConvert \/ DcmEnd

SpecDcm == DcmInit /\ [][DcmNext]_vars

----------------------------------------------------------------------------
(* Reading the table: the entries of a comma-joined cell and the records of *)
(* a participant                                                            *)

\* s.split(',')
RECURSIVE split(_)
split(s) ==
    IF \A i \in 1..Len(s) : s[i] # Comma THEN <<s>>
    ELSE LET p == CHOOSE i \in 1..Len(s) : s[i] = Comma /\ \A j \in 1..(i - 1) : s[j] # Comma
         IN <<SubSeq(s, 1, p - 1)>> \o split(SubSeq(s, p + 1, Len(s)))

PerSessionColumns == {"age", "sdmt", "9hpt_dom", "9hpt_ndom", "edss", "t25fw", "education"}

ExactSources == {"sdmt", "edss", "t25fw", "education"}

HasCol(c) == c \in DOMAIN df

Loaded(src) == files[src].st = "ok"

\* the records of participant i in a source, in row order
OwnRows(src, i) == matching_rows(files[src], participants[i].pid)

\* the normalized date of a record: a result that is ok only for a readable date
RecordDate(src, row) ==
    IF isna(row.date) THEN RNone ELSE Normalize(src, row.date, tz)

IsDate(res, date) == res.r = "ok" /\ res.v = date

IsOn(src, row, date) == IsDate(RecordDate(src, row), date)

\* the first record from position k on, in row order, whose normalized date is the
\* given date; 0 if none
RECURSIVE FirstOnFrom(_, _, _, _)
FirstOnFrom(src, rows, date, k) ==
    IF k > Len(rows) THEN 0
    ELSE IF IsOn(src, rows[k], date) THEN k
    ELSE FirstOnFrom(src, rows, date, k + 1)

\* the first record, in row order, whose normalized date is the given date; 0 if none
FirstOn(src, rows, date) == FirstOnFrom(src, rows, date, 1)

\* the record nearest in days to the given date, the first one on a tie; 0 if none
Nearest(src, rows, date) ==
    LET dated == {k \in 1..Len(rows) : RecordDate(src, rows[k]).r = "ok"}
        lag(k) == LagDays(RecordDate(src, rows[k]).v, date)
        best == {k \in dated : \A m \in dated : lag(k) <= lag(m)}
    IN IF dated = {} THEN 0 ELSE CHOOSE k \in best : \A m \in best : k <= m

\* entry j of the cell of participant i in column c: absent when the cell is shorter
Absent == <<Val("absent", 0, 0, 0, 0)>>

EntryOf(entries, j) == IF j <= Len(entries) THEN entries[j] ELSE Absent

Entry(c, i, j) == EntryOf(split(df[c][i]), j)

----------------------------------------------------------------------------
\* the value text of record k of rows, the sentinel for k = 0
ValueAt(rows, k) == IF k # 0 THEN ValueText(rows[k].val) ELSE <<>>

\* the value text of the first record of rows on the date, the sentinel if none
FirstValueOn(src, rows, date) == ValueAt(rows, FirstOn(src, rows, date))

(* C1: in the written table every per-session cell of every subject has    *)
(* exactly as many comma-separated entries as the subject has sessions.    *)
C1_EntriesAligned ==
    pc = "done" =>
        \A i \in 1..Len(participants) : \A c \in PerSessionColumns :
            Len(split(written.data[c][i])) = Len(participants[i].sessions)

(* C2 as stated: the edss entry of a session is the score of the subject's *)
(* record nearest in days to the session date when that lag is at most 90  *)
(* days (the first on a tie), and the sentinel otherwise.                  *)
C2_NearestWithinTolerance ==
    (HasCol("edss") /\ Loaded("edss")) =>
        \A i \in 1..Len(participants) : \A j \in 1..Len(participants[i].sessions) :
            LET rows == OwnRows("edss", i)
                date == participants[i].sessions[j]
                k == Nearest("edss", rows, date)
            IN Entry("edss", i, j) =
                   IF k # 0 /\ LagDays(RecordDate("edss", rows[k]).v, date) <= 90
                   THEN ValueText(rows[k].val) ELSE <<>>

(* C2 amended: with the EDSS table loaded, the edss entry of a session is  *)
(* the score text of the first record, in row order, of the subject whose  *)
(* visit date equals the session date exactly, and the sentinel when the   *)
(* subject has no record on that date, whatever the lag of other records.  *)
C2_ExactDateOnly ==
    (HasCol("edss") /\ Loaded("edss")) =>
        \A i \in 1..Len(participants) : \A j \in 1..Len(participants[i].sessions) :
            Entry("edss", i, j) =
                FirstValueOn("edss", OwnRows("edss", i), participants[i].sessions[j])

\* a record 2 days before the session and none on it: the entry is the sentinel,
\* next to a session whose own record supplies 2.5
C2_Witness ==
    /\ pc = "done" /\ Loaded("edss")
    /\ \E i \in 1..Len(participants) : \E j, h \in 1..Len(participants[i].sessions) :
          LET rows == OwnRows("edss", i)
              date == participants[i].sessions[j]
          IN /\ FirstOn("edss", rows, date) = 0
             /\ \E k \in 1..Len(rows) :
                   /\ RecordDate("edss", rows[k]).r = "ok"
                   /\ LagDays(RecordDate("edss", rows[k]).v, date) \in 1..90
                   /\ ValueText(rows[k].val) # <<>>
             /\ Entry("edss", i, j) = <<>>
             /\ FirstOn("edss", rows, participants[i].sessions[h]) # 0
             /\ Entry("edss", i, h) = <<Val("floatstr", 2, 5, 0, 0)>>

\* the 9HPT record matched to session j of participant i; 0 if none
HptMatch(i, j) == FirstOn("hpt9", OwnRows("hpt9", i), participants[i].sessions[j])

\* the outcome of record k of rows, two sentinels for k = 0
HandAt(rows, k) ==
    IF k # 0 THEN hand_outcome(rows[k]) ELSE [dom |-> <<>>, ndom |-> <<>>, hand |-> ""]

\* the participants whose 9HPT cells are final: those before idx while the loop runs
Hpt9Stored(i) ==
    /\ HasCol("9hpt_dom") /\ Loaded("hpt9")
    /\ pc \in {"9hpt_participant", "9hpt_session"} => i < idx

\* main has returned or an exception has left it: df is the frame the run ends with
RunEnded == pc \in {"write", "done", "crashed"}

(* C3: in the frame a run ends with, for sdmt, t25fw, education and 9hpt    *)
(* the entry of a session comes from the first record, in row order, of the *)
(* subject whose normalized date equals the session date; no record with    *)
(* another date supplies it, and without a record on the date the entry is  *)
(* the sentinel.                                                            *)
C3_FirstExactRecord ==
    /\ \A src \in {"sdmt", "t25fw", "education"} :
          (RunEnded /\ HasCol(src) /\ Loaded(src)) =>
              \A i \in 1..Len(participants) : \A j \in 1..Len(participants[i].sessions) :
                  Entry(src, i, j) =
                      FirstValueOn(src, OwnRows(src, i), participants[i].sessions[j])
    /\ \A i \in 1..Len(participants) :
          (RunEnded /\ Hpt9Stored(i)) =>
              \A j \in 1..Len(participants[i].sessions) :
                  /\ Entry("9hpt_dom", i, j) = HandAt(OwnRows("hpt9", i), HptMatch(i, j)).dom
                  /\ Entry("9hpt_ndom", i, j) = HandAt(OwnRows("hpt9", i), HptMatch(i, j)).ndom

\* two records of a subject on the session date with different values, after a
\* record on another date: the entry is the value of the first of the two
C3_Witness ==
    /\ pc = "done" /\ Loaded("sdmt")
    /\ \E i \in 1..Len(participants) : \E j \in 1..Len(participants[i].sessions) :
          LET rows == OwnRows("sdmt", i)
              date == participants[i].sessions[j]
              k == FirstOn("sdmt", rows, date)
          IN /\ k # 0
             /\ \E m \in (k + 1)..Len(rows) :
                   /\ IsOn("sdmt", rows[m], date)
                   /\ ValueText(rows[m].val) # ValueText(rows[k].val)
             /\ Entry("sdmt", i, j) = ValueText(rows[k].val)
             /\ Entry("sdmt", i, j) = <<Val("floatstr", 3, 0, 0, 0)>>

\* the record the EDSS scan accepts for session j of participant i
EdssAccepted(i, j) ==
    scan_rows("edss", files["edss"].lacks, OwnRows("edss", i), 1,
              participants[i].sessions[j], 0)

\* the lag in days of record k of participant i to session j
EdssLag(i, j, k) ==
    LagDays(RecordDate("edss", OwnRows("edss", i)[k]).v, participants[i].sessions[j])

(* C4: whenever the EDSS scan accepts a record for a session of a subject,  *)
(* the record supplies the entry, its lag to the session date is at most 90 *)
(* days, and no other record of the subject has a strictly smaller lag.     *)
C4_AcceptedWithinTolerance ==
    (HasCol("edss") /\ Loaded("edss")) =>
        \A i \in 1..Len(participants) : \A j \in 1..Len(participants[i].sessions) :
            (EdssAccepted(i, j).r = "ok" /\ EdssAccepted(i, j).v.found) =>
                /\ Entry("edss", i, j) = EdssAccepted(i, j).v.text
                /\ EdssLag(i, j, EdssAccepted(i, j).v.at) <= 90
                /\ \A m \in 1..Len(OwnRows("edss", i)) :
                      RecordDate("edss", OwnRows("edss", i)[m]).r = "ok" =>
                          EdssLag(i, j, m) >= EdssLag(i, j, EdssAccepted(i, j).v.at)

\* a record is accepted for a session although an earlier record of the subject,
\* two days off the session date, comes first in row order
C4_Witness ==
    /\ pc = "done" /\ Loaded("edss")
    /\ \E i \in 1..Len(participants) : \E j \in 1..Len(participants[i].sessions) :
          /\ EdssAccepted(i, j).r = "ok" /\ EdssAccepted(i, j).v.found
          /\ EdssAccepted(i, j).v.at = 2
          /\ RecordDate("edss", OwnRows("edss", i)[1]).r = "ok"
          /\ EdssLag(i, j, 1) = 2
          /\ Entry("edss", i, j) # <<>>

\* the hand a record assigns: hand used when it is the dominant hand and is left or right
RecordHand(row) ==
    IF hand_text(row.used) = hand_text(row.dom) /\ hand_text(row.used) \in {"left", "right"}
    THEN hand_text(row.used) ELSE ""

(* C5: for a date-matched 9HPT record whose hand used is its dominant hand  *)
(* and is left or right, 9hpt_dom of the session is the time of that hand   *)
(* and 9hpt_ndom the time of the other hand; when hand used differs from    *)
(* the dominant hand both entries are the sentinel.                         *)
C5_DominantSplit ==
    \A i \in 1..Len(participants) : \A j \in 1..Len(participants[i].sessions) :
        (Hpt9Stored(i) /\ HptMatch(i, j) # 0) =>
            LET row == OwnRows("hpt9", i)[HptMatch(i, j)]
            IN /\ RecordHand(row) = "left" =>
                     /\ Entry("9hpt_dom", i, j) = ValueText(row.left)
                     /\ Entry("9hpt_ndom", i, j) = ValueText(row.right)
               /\ RecordHand(row) = "right" =>
                     /\ Entry("9hpt_dom", i, j) = ValueText(row.right)
                     /\ Entry("9hpt_ndom", i, j) = ValueText(row.left)
               /\ hand_text(row.used) # hand_text(row.dom) =>
                     /\ Entry("9hpt_dom", i, j) = <<>>
                     /\ Entry("9hpt_ndom", i, j) = <<>>

\* right/right with left time 28.1 and right time 19.4 gives dom 19.4 and ndom 28.1,
\* and the record of the other session, with hand used left, gives two sentinels
C5_Witness ==
    /\ pc = "done" /\ Loaded("hpt9")
    /\ \E i \in 1..Len(participants) : \E j, h \in 1..Len(participants[i].sessions) :
          /\ HptMatch(i, j) # 0 /\ HptMatch(i, h) # 0
          /\ hand_text(OwnRows("hpt9", i)[HptMatch(i, j)].used) = "right"
          /\ hand_text(OwnRows("hpt9", i)[HptMatch(i, j)].dom) = "right"
          /\ Entry("9hpt_dom", i, j) = <<Val("floatstr", 19, 4, 0, 0)>>
          /\ Entry("9hpt_ndom", i, j) = <<Val("floatstr", 28, 1, 0, 0)>>
          /\ hand_text(OwnRows("hpt9", i)[HptMatch(i, h)].used) = "left"
          /\ hand_text(OwnRows("hpt9", i)[HptMatch(i, h)].dom) = "right"
          /\ Entry("9hpt_dom", i, h) = <<>>
          /\ Entry("9hpt_ndom", i, h) = <<>>

\* the hand of the first session, in session order, of participant i whose matched
\* record assigns a hand; "" when no session has one
FirstValidHand(i) ==
    LET valid == {j \in 1..Len(participants[i].sessions) :
                     HptMatch(i, j) # 0
                         /\ RecordHand(OwnRows("hpt9", i)[HptMatch(i, j)]) # ""}
    IN IF valid = {} THEN ""
       ELSE RecordHand(OwnRows("hpt9", i)[
                HptMatch(i, CHOOSE j \in valid : \A m \in valid : j <= m)])

(* C6: within process_9hpt_fields the handedness of a subject, once set, is *)
(* left unchanged by every later session of the subject, and the value      *)
(* stored for the subject is the hand of the first session, in session      *)
(* order, whose matched record yields a valid assignment.                   *)
C6_HandednessSetOnce ==
    [][/\ (pc = "9hpt_session" /\ pc' = "9hpt_session" /\ handedness # "")
              => handedness' = handedness
       /\ (pc = "9hpt_session" /\ pc' = "9hpt_participant")
              => df'["handedness"][idx] = FirstValidHand(idx)]_vars

\* both sessions of a subject are done, handedness is "right" from the first, and
\* the record of the second session names left as the dominant hand used
C6_Witness ==
    /\ pc = "9hpt_session" /\ si = 3 /\ handedness = "right"
    /\ HptMatch(idx, 1) # 0 /\ HptMatch(idx, 2) # 0
    /\ RecordHand(OwnRows("hpt9", idx)[HptMatch(idx, 1)]) = "right"
    /\ RecordHand(OwnRows("hpt9", idx)[HptMatch(idx, 2)]) = "left"

\* the columns of the table derived from a source
SourceColumns(src) ==
    CASE src = "sDOB" -> {"age", "sex", "is_ms"}
      [] src = "hpt9" -> {"9hpt_dom", "9hpt_ndom", "handedness"}
      [] OTHER -> {src}

\* the empty string as the cell of a column holds it
Sentinel(c) == IF c \in {"sex", "is_ms", "handedness"} THEN "" ELSE <<>>

NotLoaded(src) == files[src].st \in {"missing", "unreadable"}

(* C7: when the file of a source is missing or unreadable, every column    *)
(* derived from it is the sentinel for every subject, the run is not ended  *)
(* by it (it ends early only on a table that was read and lacks a column),  *)
(* and the written table has one row per subject in every column.           *)
C7_MissingSourceSentinel ==
    \A src \in Sources :
        NotLoaded(src) =>
            /\ \A c \in SourceColumns(src) :
                  HasCol(c) => \A i \in 1..Len(participants) : df[c][i] = Sentinel(c)
            /\ pc = "crashed" => \E s \in Sources : files[s].st = "ok" /\ files[s].lacks # {}
            /\ pc = "done" =>
                  /\ written.header = column_order
                  /\ \A k \in 1..Len(column_order) :
                        Len(written.data[column_order[k]]) = Len(participants)
                  /\ \A c \in SourceColumns(src) : \A i \in 1..Len(participants) :
                        written.data[c][i] = Sentinel(c)

\* the table is written for two subjects although one file is unreadable and
\* another is missing, and a source that was read supplies a value
C7_Witness ==
    /\ pc = "done" /\ Len(participants) = 2
    /\ files["sDOB"].st = "unreadable" /\ files["sdmt"].st = "missing"
    /\ Loaded("edss")
    /\ \A i \in 1..2 : written.data["age"][i] = <<>> /\ written.data["sdmt"][i] = <<>>
    /\ written.data["edss"][1] # <<>>

(* C8: a failure while one field of one subject is fused (a table that      *)
(* lacks an expected column) is caught, so that the run never ends without  *)
(* writing the table.                                                       *)
C8_FailureCaught ==
    (\E s \in Sources : files[s].st = "ok" /\ files[s].lacks # {}) => pc # "crashed"

\* a record of participant i in a source whose date is present and is not readable
HasUnreadableDate(src, i) ==
    \E k \in 1..Len(OwnRows(src, i)) :
        ~isna(OwnRows(src, i)[k].date) /\ RecordDate(src, OwnRows(src, i)[k]).r # "ok"

(* C9: a record whose date is empty or cannot be parsed is left out of the  *)
(* candidates and nothing more: the run goes on, and the entry of a session *)
(* is still taken from the subject's first record on the session date.      *)
C9_UnreadableDateSkipped ==
    \A src \in ExactSources :
        (Loaded(src) /\ \E i \in 1..Len(participants) : HasUnreadableDate(src, i)) =>
            /\ pc # "crashed"
            /\ HasCol(src) =>
                  \A i \in 1..Len(participants) : \A j \in 1..Len(participants[i].sessions) :
                      Entry(src, i, j) =
                          FirstValueOn(src, OwnRows(src, i), participants[i].sessions[j])

(* C10: extract_date_from_timestamp, extract_date_from_datetime,            *)
(* extract_date_from_visitdate and calculate_age return a result or None    *)
(* for every input value, and never raise an exception.                     *)
C10_NeverRaises == nout.r # "raise"

----------------------------------------------------------------------------
(* Reading the session mapping and the input tree *)

Range(l) == {l[i] : i \in 1..Len(l)}

\* the date directories of an item of the input tree
DateDirsOf(item) == {e.name.date : e \in {x \in Range(item.ses) : x.dir /\ date_pattern(x.name)}}

\* the subject directories of the input tree
SubjectDirs(items) == {x \in Range(items) : x.dir /\ subject_pattern(x.name)}

\* the enumerations of a tree: every listing in every order
Enumerations(items) ==
    UNION {{t \in [1..Len(q) -> UNION {{[q[i] EXCEPT !.ses = l] : l \in Orders(q[i].ses)} : i \in 1..Len(q)}] :
                \A i \in 1..Len(q) : t[i].name = q[i].name} :
           q \in Orders(items)}

(* C11: build_session_mapping gives the n date directories of every subject *)
(* the ordinals 1..n, each once, an earlier date the smaller ordinal, and   *)
(* each label carries its own date.                                         *)
C11_DenseOrdinals ==
    bpc = "returned" =>
        \A s \in SubjectDirs(input_root) :
            LET D == DateDirsOf(s)
                ordinal(d) == session_mapping[<<s.name, d>>].ord
            IN /\ \A d \in D : <<s.name, d>> \in DOMAIN session_mapping
               /\ {ordinal(d) : d \in D} = 1..Cardinality(D)
               /\ \A d, e \in D : d < e => ordinal(d) < ordinal(e)
               /\ \A d \in D : session_mapping[<<s.name, d>>].date = d

\* a subject with two date directories listed later date first has its mapping
C11_Witness ==
    /\ bpc = "returned"
    /\ \E s \in SubjectDirs(input_root) :
          /\ Len(s.ses) = 2 /\ Cardinality(DateDirsOf(s)) = 2
          /\ s.ses[1].name.date > s.ses[2].name.date
          /\ session_mapping[<<s.name, s.ses[2].name.date>>].ord = 1

(* C12 as stated: in the tree organize_to_bids has written, the session     *)
(* folders of every subject carry the ordinals 1..n, each once, increasing  *)
(* with the date.                                                           *)
C12_OutputOrdinalsDense ==
    bpc = "done" =>
        \A sub \in {d.sub : d \in anat_dirs} :
            LET labels == {d.ses : d \in {x \in anat_dirs : x.sub = sub}}
            IN /\ {l.ord : l \in labels} = 1..Cardinality(labels)
               /\ \A l, m \in labels : l.date < m.date => l.ord < m.ord

(* C13: the mapping build_session_mapping returns is the mapping it returns *)
(* for every other order of enumeration of the same directories.           *)
C13_OrderIndependent ==
    bpc = "returned" =>
        \A t \in Enumerations(input_root) : build_session_mapping(t) = session_mapping

\* a returned mapping of a tree with a listing of two date directories
C13_Witness ==
    /\ bpc = "returned"
    /\ \E s \in SubjectDirs(input_root) : Cardinality(DateDirsOf(s)) = 2
    /\ Cardinality(Enumerations(input_root)) = 4

(* C14 as stated: a second run of main over the same imaging tree and the   *)
(* same clinical tables writes the table the first run wrote: the same rows *)
(* in the same order with the same values.                                  *)
C14_SameTable == (run = 2 /\ pc = "done") => written = first_written

\* the row of a table at position i
RowOf(table, i) ==
    [c \in DOMAIN table.data |-> IF i <= Len(table.data[c]) THEN table.data[c][i] ELSE Absent]

(* C15 as stated: the row of a subject is the same after a record of        *)
(* another subject was added to a clinical table: the second run writes for *)
(* every other subject the row the first run wrote.                         *)
C15_OwnRecordsOnly ==
    (run = 2 /\ changed # 0 /\ pc \in {"done", "crashed"}) =>
        \A i \in 1..Len(participants) :
            participants[i].pid # changed => RowOf(written, i) = RowOf(first_written, i)

\* the birth date of the first record of rows, parsed as calculate_age parses it
BirthDate(rows) ==
    IF Len(rows) = 0 \/ isna(rows[1].dob) THEN RNone
    ELSE strptime(str(rows[1].dob), "%d.%m.%Y")

\* the age entry for a birth date and a session date
AgeEntry(birth, session_date) ==
    IF birth.r = "ok" THEN FormatAge(AgeHundredths(DayNumber(session_date) - DayNumber(birth.v)))
    ELSE <<>>

(* C16 as stated: with the birth dates loaded, the age entry of session i of *)
(* a subject is the days from the birth date to the session date divided by *)
(* 365.2425 (printed with two decimals), and when the birth date is missing *)
(* or cannot be parsed the age entry of every session of the subject is the *)
(* sentinel.                                                                *)
C16_AgeEntries ==
    (HasCol("age") /\ Loaded("sDOB")) =>
        \A i \in 1..Len(participants) : \A j \in 1..Len(participants[i].sessions) :
            Entry("age", i, j) =
                AgeEntry(BirthDate(OwnRows("sDOB", i)), participants[i].sessions[j])

\* the argument of the call is a date in the canonical form 'YYYYMMDD'
CanonicalArg == narg.k = "digits" /\ narg.a >= 10000000 /\ IsCalendarDate(narg.a)

\* the call of one of the three date normalizers has returned or raised
Normalized ==
    /\ nfn \in {"extract_date_from_timestamp", "extract_date_from_datetime",
                 "extract_date_from_visitdate"}
    /\ nout # Pending

(* C17 as stated: each of the three date normalizers returns, for a value   *)
(* that is already a date in the canonical form YYYYMMDD, that same date.   *)
C17_RoundTrip == (Normalized /\ CanonicalArg) => nout = Ok(narg.a)

(* C17 amended: for a value already in the canonical form YYYYMMDD,         *)
(* extract_date_from_datetime and extract_date_from_visitdate return None,  *)
(* and extract_date_from_timestamp reads the digits as epoch seconds and    *)
(* returns another date, one of the years 1970 to 1973.                     *)
C17_CanonicalNotKept ==
    (Normalized /\ CanonicalArg) =>
        IF nfn = "extract_date_from_timestamp"
          THEN nout.r = "ok" /\ nout.v # narg.a /\ nout.v \in 19700101..19731231
        ELSE nout = RNone

\* extract_date_from_timestamp('20180212') has returned '19700822'
C17_Witness ==
    /\ nfn = "extract_date_from_timestamp"
    /\ narg = Val("digits", 20180212, 0, 0, 0)
    /\ nout = Ok(19700822)

\* a name that is an 8-digit date after the prefix, with or without an ordinal
EmbedsDate(name, pre) ==
    name.pre = pre /\ name.date >= 0 /\ name.nd = 8 /\ name.suf = ""

\* the dates of the directories of a listing whose name embeds a date
DatedDirs(entries, pre) ==
    {e.name.date : e \in {x \in Range(entries) : x.dir /\ EmbedsDate(x.name, pre)}}

\* the subject directories of the BIDS tree whose whole name is sub-<digits>
WholeSub(items) == {x \in Range(items) : x.dir /\ sub_pattern(x.name)}

\* the subject directories of the input tree whose whole name is <digits>_<digits>
WholeRaw(items) == {x \in Range(items) : x.dir /\ subject_pattern(x.name) /\ x.name.suf = ""}

(* C18 as stated: both indexes take a directory as a session exactly when   *)
(* its name embeds an 8-digit date, with or without a leading ordinal, and  *)
(* it lies in a subject directory whose whole name conforms; every other    *)
(* directory is left out.                                                   *)
C18_SessionsTaken ==
    /\ pc # "start" =>
          \A x \in WholeSub(tree) :
              DatedDirs(x.ses, "ses-")
                  = UNION {Range(q.sessions) : q \in {y \in Range(participants) : y.pid = x.name.id}}
    /\ pc # "start" =>
          \A q \in Range(participants) : \E x \in WholeSub(tree) : x.name.id = q.pid
    /\ bpc = "returned" =>
          DOMAIN session_mapping
              = UNION {{<<x.name, d>> : d \in DatedDirs(x.ses, "")} : x \in WholeRaw(input_root)}

(* C19 as stated: the list of session dates of every subject that           *)
(* get_participants_and_sessions returns is in ascending order and holds no *)
(* date twice.                                                              *)
C19_SortedDistinct ==
    pc # "start" =>
        \A q \in Range(participants) :
            \A j \in 1..(Len(q.sessions) - 1) : q.sessions[j] < q.sessions[j + 1]

\* the ids of the conforming subject directories with a conforming session directory
IndexedIds(items) ==
    {x.name.id : x \in {y \in WholeSub(items) :
                            \E e \in Range(y.ses) : e.dir /\ ses_pattern(e.name)}}

(* C20: the table main has written holds exactly one row for every subject  *)
(* directory with at least one session directory, whatever the clinical     *)
(* tables hold, and no row for a subject directory without a session.       *)
C20_OneRowPerSubject ==
    pc = "done" =>
        /\ \A c \in DOMAIN written.data :
              Len(written.data[c]) = Cardinality(IndexedIds(tree))
        /\ Range(written.data["participant_id"]) = IndexedIds(tree)

\* a table is written for a tree in which sub-1 holds no directory: it has one
\* row, that of sub-2, while a clinical table is missing
C20_Witness ==
    /\ pc = "done"
    /\ Len(tree[1].ses) = 0 /\ Len(tree[2].ses) > 0
    /\ written.data["participant_id"] = <<2>>
    /\ \E src \in Sources : NotLoaded(src)

\* the same for a tree in which sub-1 holds only a directory that is no session
C20_NoSessionWitness ==
    /\ pc = "done"
    /\ tree = UnnumberedTree
    /\ written.data["participant_id"] = <<2>>

(* C21 as stated: when the root of the imaging tree does not exist or holds *)
(* no subject with a session, main stops before any field is processed and  *)
(* writes no table; in every other run main is not stopped before the write *)
(* of the table.                                                            *)
C21_StopsOnlyWithoutSubjects ==
    /\ IndexedIds(tree) = {} =>
          pc \in {"start", "aborted"} /\ df = EmptyFrame /\ written = NoTable
    /\ IndexedIds(tree) # {} => pc \notin {"aborted", "crashed"}

\* a field processor has run its loop over the participants: matching has begun
MatchingBegun ==
    pc \notin {"idle", "start", "aborted", "participant_id", "session", "age"}

(* C22 as stated: in a run of main no clinical source is loaded more than   *)
(* once, and once the first matching step has begun every source has been   *)
(* loaded, so that none is loaded later.                                    *)
C22_LoadedOnceBeforeMatching ==
    /\ \A src \in Sources : loads[src] <= 1
    /\ MatchingBegun => \A src \in Sources : loads[src] = 1

(* C23 as stated: when process_9hpt_fields has returned, every row whose    *)
(* handedness cell was filled in the table it was called with holds that    *)
(* same value: the cell is neither emptied nor replaced by an inferred hand. *)
C23_HeldHandednessKept ==
    (pc = "edss" /\ "handedness" \in DOMAIN given) =>
        \A i \in 1..Rows(df) :
            given["handedness"][i] # "" => df["handedness"][i] = given["handedness"][i]

(* C24 as stated: extract_date_from_datetime returns, for a long-form       *)
(* string that names a calendar date, that date, whether the string ends    *)
(* with a positive offset, a negative offset or no offset.                  *)
C24_LongFormAnyOffset ==
    (nfn = "extract_date_from_datetime" /\ nout # Pending
         /\ narg.k = "long" /\ ValidYMD(narg.c, narg.b, narg.a)) =>
        nout = Ok(strftime(narg.c, narg.b, narg.a))

(* C25 as stated: when process_dresden_dataset ends, every discovered       *)
(* directory was attempted: success_count + fail_count is the number of     *)
(* discovered directories, every directory whose conversion can succeed is  *)
(* converted, and a directory whose output directory cannot be created is   *)
(* counted as one failure.                                                  *)
C25_EveryDirectoryAttempted ==
    dpc \in {"done", "crashed"} =>
        /\ success_count + fail_count = Len(dicom_dirs)
        /\ converted = {k \in 1..Len(dicom_dirs) : dicom_dirs[k].env = "ok"}
        /\ fail_count = Cardinality({k \in 1..Len(dicom_dirs) : dicom_dirs[k].env # "ok"})

\* the modality a field of the sidecar yields: that of its text when the sidecar
\* is read and the field has the type the rule reads
FieldRule(json, field, k) ==
    IF json.st = "ok" /\ field.k = k THEN modality_in(field.has) ELSE NoModality

\* the first rule that yields a modality, in the order SeriesDescription,
\* ImageType, ProtocolName, file name
FirstOf(series, image, protocol, filename) ==
    IF series # NoModality THEN series
    ELSE IF image # NoModality THEN image
    ELSE IF protocol # NoModality THEN protocol
    ELSE filename

RuleOrder(f) ==
    FirstOf(FieldRule(f.json, f.json.series, "str"), FieldRule(f.json, f.json.image, "list"),
            FieldRule(f.json, f.json.protocol, "str"), modality_in(f.name))

\* the pass over file f has treated f as a file of modality m: skipped without
\* a copy when m is none, and otherwise, when its subject and session are
\* mapped and it can be read, present in the output under m
TreatedAs(f, meta, m) ==
    IF m = NoModality
      THEN skipped_count' = skipped_count + 1 /\ bids' = bids
    ELSE (f.readable /\ meta.found
              /\ <<meta.subject_id, meta.session_date>> \in DOMAIN session_mapping) =>
            Target(bids_subject_id(meta.subject_id),
                   session_mapping[<<meta.subject_id, meta.session_date>>], m, "nii.gz")
                \in DOMAIN bids'

(* C26 as stated: every pass of the loop of organize_to_bids treats its     *)
(* file as of the modality of the first rule that yields one, in the order  *)
(* SeriesDescription, ImageType, ProtocolName of the JSON sidecar and then  *)
(* the file name, FLAIR before T1 within a rule; a file for which no rule   *)
(* yields a modality is skipped and not copied.                             *)
C26_DetectionOrder ==
    [][(bpc = "files" /\ fi' = fi + 1) =>
          TreatedAs(nifti_files[fi], path_metadata(nifti_files[fi]),
                    RuleOrder(nifti_files[fi]))]_vars

\* record k of rows is a record that assigns no hand: its hand used is not its
\* dominant hand, or is neither left nor right
FailsCheck(rows, k) == k # 0 /\ RecordHand(rows[k]) = ""

\* the step for a session appends the sentinel to both lists of times and
\* leaves the handedness as it was
SessionVoid ==
    /\ session_dom' = Append(session_dom, <<>>)
    /\ session_ndom' = Append(session_ndom, <<>>)
    /\ handedness' = handedness

(* C27: in process_9hpt_fields the first record, in row order, whose date   *)
(* is the session date decides the session: when that record fails the     *)
(* hand-consistency check, both times of the session are the sentinel and   *)
(* the handedness is not set, whatever later records of that date hold.     *)
C27_FirstSameDateDecides ==
    [][(pc = "9hpt_session" /\ si' = si + 1
            /\ FailsCheck(OwnRows("hpt9", idx), HptMatch(idx, si))) => SessionVoid]_vars

\* the first session of a subject is done with two sentinels and no handedness:
\* of its two records on the session date the first names a hand used that is
\* not the dominant hand, the second passes the check
C27_Witness ==
    /\ pc = "9hpt_session" /\ si = 2 /\ Loaded("hpt9")
    /\ session_dom = <<<<>>>> /\ session_ndom = <<<<>>>> /\ handedness = ""
    /\ Len(OwnRows("hpt9", idx)) = 2
    /\ \A k \in 1..2 : IsOn("hpt9", OwnRows("hpt9", idx)[k], participants[idx].sessions[1])
    /\ hand_text(OwnRows("hpt9", idx)[1].used) # hand_text(OwnRows("hpt9", idx)[1].dom)
    /\ RecordHand(OwnRows("hpt9", idx)[2]) # ""

\* record k of rows is a record with an empty value cell
EmptyValue(rows, k) == k # 0 /\ ValueText(rows[k].val) = <<>>

\* the sessions of participant i that the processor of src reports as missing
Reported(src, i) ==
    missing_sessions(src, files[src].lacks, OwnRows(src, i), participants[i].sessions,
                     IF src = "education" THEN tz ELSE 0)

(* C28: for sdmt, edss, t25fw and education, a session whose first record   *)
(* on the session date, in row order, has an empty value gets the sentinel  *)
(* as its entry and is not among the sessions reported as missing; no later *)
(* record of that date supplies the entry.                                  *)
C28_EmptyValueIsFound ==
    \A src \in ExactSources :
        (RunEnded /\ HasCol(src) /\ Loaded(src)) =>
            \A i \in 1..Len(participants) : \A j \in 1..Len(participants[i].sessions) :
                EmptyValue(OwnRows(src, i),
                           FirstOn(src, OwnRows(src, i), participants[i].sessions[j])) =>
                    /\ Entry(src, i, j) = <<>>
                    /\ j \notin Reported(src, i)

\* the table is written with the sentinel for the first session of a subject
\* whose t25fw records on the session date are one with an empty cell followed
\* by one that holds 3.0; the session is not reported as missing
C28_Witness ==
    /\ pc = "done" /\ Loaded("t25fw")
    /\ \E i \in 1..Len(participants) :
          /\ Len(OwnRows("t25fw", i)) = 2
          /\ \A k \in 1..2 : IsOn("t25fw", OwnRows("t25fw", i)[k], participants[i].sessions[1])
          /\ isna(OwnRows("t25fw", i)[1].val)
          /\ ValueText(OwnRows("t25fw", i)[2].val) = <<Val("floatstr", 3, 0, 0, 0)>>
          /\ Entry("t25fw", i, 1) = <<>>
          /\ 1 \notin Reported("t25fw", i)

\* the steps of main that call a process_*_field function on the table
FieldSteps ==
    {"session", "age", "sex", "is_ms", "sdmt", "9hpt", "9hpt_participant", "9hpt_session",
     "edss", "t25fw", "education"}

\* the columns a step of main may write
StepColumns(step) ==
    IF step \in {"9hpt", "9hpt_participant", "9hpt_session"}
      THEN {"9hpt_dom", "9hpt_ndom", "handedness"}
    ELSE {step}

\* frame e is frame d but for the columns own: no column of d is lost, no other
\* column is new, the columns of d outside own are as they were, and every
\* column of e has one cell per row of d
FrameKept(d, e, own) ==
    /\ DOMAIN d \subseteq DOMAIN e
    /\ DOMAIN e \subseteq DOMAIN d \cup own
    /\ \A c \in DOMAIN d \ own : e[c] = d[c]
    /\ \A c \in DOMAIN e : Len(e[c]) = Rows(d)

\* a step keeps the frame but for its columns, and has them in the table when
\* it returns
FieldStepKeeps ==
    /\ FrameKept(df, df', StepColumns(pc))
    /\ pc' \notin {"crashed", "9hpt_participant", "9hpt_session"} =>
          StepColumns(pc) \subseteq DOMAIN df'

(* C29: every process_*_field step of main adds or replaces only its own    *)
(* column or columns: the rows, their order, the participant_id and session *)
(* columns and the columns of the earlier steps are as before the step,     *)
(* when the source is read and when it is missing or unreadable; a step     *)
(* that returns has its own columns in the table.                           *)
C29_OwnColumnsOnly == [][(pc \in FieldSteps) => FieldStepKeeps]_vars

\* all field steps are done for two subjects, the SDMT file was missing and the
\* t25fw table was read: the table holds the twelve columns and its
\* participant_id column is the list of the subjects
C29_Witness ==
    /\ pc = "write" /\ Len(participants) = 2
    /\ files["sdmt"].st = "missing" /\ Loaded("t25fw")
    /\ DOMAIN df = {column_order[k] : k \in 1..Len(column_order)}
    /\ df["participant_id"] = [i \in 1..2 |-> participants[i].pid]
    /\ df["sdmt"] = [i \in 1..2 |-> <<>>]
    /\ \E i \in 1..2 : df["t25fw"][i] # <<>>

\* the image file a NIfTI file is organized as, given its subject, session and
\* modality
ImageTarget(meta, modality) ==
    Target(bids_subject_id(meta.subject_id),
           session_mapping[<<meta.subject_id, meta.session_date>>], modality, "nii.gz")

\* file f passes the tests of the loop: its path names a subject and a date
\* that are mapped, and its modality is known
Organizable(f, meta) ==
    /\ meta.found /\ <<meta.subject_id, meta.session_date>> \in DOMAIN session_mapping
    /\ modality_of(f) # NoModality

\* a pass over a file whose target exists leaves the output as it is but for
\* the sidecar, and counts the file as processed
LaterCounted(f, meta) ==
    (Organizable(f, meta) /\ ImageTarget(meta, modality_of(f)) \in DOMAIN bids) =>
        /\ processed_count' = processed_count + 1
        /\ \A t \in DOMAIN bids' : t.ext = "nii.gz" => t \in DOMAIN bids

\* a step of organize_to_bids keeps every file of the output tree, counts each
\* file of the loop once, and ends with both counts adding up to the files found
OrganizeKeeps ==
    /\ \A t \in DOMAIN bids : t \in DOMAIN bids' /\ bids'[t] = bids[t]
    /\ (bpc = "files" /\ fi' = fi + 1) =>
          /\ processed_count' + skipped_count' = processed_count + skipped_count + 1
          /\ LaterCounted(nifti_files[fi], path_metadata(nifti_files[fi]))
    /\ bpc' = "done" => processed_count' + skipped_count' = Len(nifti_files')

====
